---------------------------- MODULE Spec2Model ----------------------------
(***************************************************************************)
(* Asynchronous job dispatch and lifecycle of the Nemotron chat service:   *)
(* the retry policy (app/utils/retry.py), the idempotency guard and the    *)
(* router of the HTTP process (app/middleware/idempotency.py,              *)
(* app/controller/chat_controller.py) and the queue worker                 *)
(* (app/worker/base_worker.py, app/service/queue_service.py).              *)
(*                                                                         *)
(* The main specifications of the module, among others:                    *)
(*   RetrySpec  one call of RetryPolicy.execute_with_retry;                *)
(*   GuardSpec  concurrent HTTP submits through the idempotent wrapper;    *)
(*   Spec       the broker queues, the workers and the job store.          *)
(* Each one leaves the variables of the other two untouched.  The other    *)
(* specifications are these under fewer or more environment steps.         *)
(***************************************************************************)
EXTENDS Integers, Sequences, FiniteSets, TLC

None == "None"

\* Python's None where the value, when there is one, is an object.
Nil == [type |-> "None"]

Last(s) == s[Len(s)]

(***************************************************************************)
(* Bounds of the model.                                                    *)
(***************************************************************************)
MaxRetriesBound == 3
MaxBaseDelay == 2
MaxBackoff == 2
NumClients == 2
MaxOutages == 1
MaxExpiries == 1
MaxJobs == 2
MaxFaults == 1
MaxClock == 2

(***************************************************************************)
(* Program constants (app/config/settings.py).                             *)
(***************************************************************************)
MAX_RETRIES == 3
RETRY_DELAY == 2
RETRY_BACKOFF == 2
WORKER_PREFETCH_COUNT == 1

\* ChatRequest.priority: Field(default=5, ge=1, le=10)
DefaultPriority == 5

VARIABLES
    \* ---- RetryPolicy.execute_with_retry -------------------------------
    max_retries,      \* parameter max_retries
    base_delay,       \* parameter base_delay
    backoff,          \* parameter backoff
    retry_on,         \* parameter retry_on: the exception classes caught
    attempt,          \* the loop variable
    last_exception,   \* the local last_exception
    r_pc,             \* position: "call", "sleep", "after_loop", "returned", "raised"
    r_outcome,        \* what the call returned or raised
    r_calls,          \* history: number of invocations of func
    r_slept,          \* history: the delays handed to asyncio.sleep, in order
    r_errors,         \* history: the exceptions func raised, in order
    \* ---- shared infrastructure ----------------------------------------
    redis,            \* the Redis keyspace: key -> value, None when absent
    queues,           \* the broker's request queues: "gpu", "api" -> envelopes
    next_uuid,        \* number of uuid4() job ids generated so far
    cuda_available,   \* nemotron_engine.cuda_available in the HTTP process
    \* ---- HTTP process: idempotent wrapper and router --------------------
    connection,       \* queue_service.connection is set
    cache_up,         \* redis_cache has a client and Redis answers it
    broker_up,        \* RabbitMQ accepts connections and publishes
    outages,          \* history: changes of cache_up / broker_up so far
    expiries,         \* history: keys Redis has expired so far
    c_pc,             \* per request: position in IdempotencyMiddleware.wrapper
    c_req,            \* per request: its endpoint and idempotency_key
    c_result,         \* per request: what func returned or raised
    c_outcome,        \* per request: what the wrapper returned or raised
    \* ---- broker and worker processes -----------------------------------
    dlq,              \* the dead-letter queues: "gpu", "api" -> envelopes
    responses,        \* chat_responses: job id -> status of its last event
    w_pc,             \* per worker: position in consume_queue / process_message
    w_msg,            \* per worker: the delivered, unacknowledged message
    w_attempt,        \* per worker: the retry loop's attempt
    w_result,         \* per worker: the ChatResponse of _process_with_retry
    w_exc,            \* per worker: the exception process_message caught
    faults,           \* history: infrastructure faults and crashes so far
    \* ---- HTTP process: GET /status/{job_id} ------------------------------
    poll,             \* the reply of the latest get_job_status, None before
    \* ---- wall clock ------------------------------------------------------
    now               \* what datetime.utcnow() returns

retryVars == <<max_retries, base_delay, backoff, retry_on, attempt,
               last_exception, r_pc, r_outcome, r_calls, r_slept, r_errors>>

sharedVars == <<redis, queues, next_uuid, cuda_available>>

guardVars == <<connection, cache_up, broker_up, outages, expiries,
               c_pc, c_req, c_result, c_outcome>>

workerVars == <<dlq, responses, w_pc, w_msg, w_attempt, w_result, w_exc,
                faults>>

pollVars == <<poll>>

clockVars == <<now>>

vars == <<retryVars, sharedVars, guardVars, workerVars, pollVars, clockVars>>

(***************************************************************************)
(* RetryPolicy.execute_with_retry                                          *)
(***************************************************************************)
ErrorKinds == {"ConnectionError", "ValueError"}

RECURSIVE Pow(_, _)
Pow(b, e) == IF e <= 0 THEN 1 ELSE b * Pow(b, e - 1)

\* `except retry_on as e`: the exception is caught iff it is an instance of
\* one of the classes of retry_on.
\* (IsRetryableAll is the faulty variant `except Exception`.)
IsRetryableAll(kind, classes) == TRUE
IsRetryable(kind, classes) == kind \in classes

\* `if attempt == max_retries`
\* (IsLastAttemptEarly is the faulty variant that gives up one attempt early.)
IsLastAttemptEarly(a, m) == a + 1 = m
\* (IsLastAttemptNever is the faulty variant without the test: every failed
\* attempt is followed by a sleep.)
IsLastAttemptNever(a, m) == FALSE
IsLastAttempt(a, m) == a = m

\* `for attempt in range(max_retries + 1)`
InRange(a, m) == a >= 0 /\ a < m + 1

\* `delay = base_delay * (backoff ** attempt)`
\* (DelayLinear is the faulty variant with a linear delay.)
DelayLinear(base, mult, a) == base * mult * a
Delay(base, mult, a) == base * Pow(mult, a)

\* `raise RuntimeError(f"{ErrorCode.MAX_RETRIES_EXCEEDED}: {str(e)}") from e`
MaxRetriesExceeded(e) == [type |-> "MaxRetriesExceeded", cause |-> e]

\* The retry policy touches nothing outside its own call.
RetryFrame == UNCHANGED <<sharedVars, guardVars, workerVars, pollVars, clockVars>>

RetryInit ==
    /\ max_retries \in -1 .. MaxRetriesBound
    /\ base_delay \in 1 .. MaxBaseDelay
    /\ backoff \in 1 .. MaxBackoff
    /\ retry_on \in SUBSET ErrorKinds
    /\ attempt = 0
    /\ last_exception = Nil
    /\ r_pc = IF InRange(0, max_retries) THEN "call" ELSE "after_loop"
    /\ r_outcome = Nil
    /\ r_calls = 0
    /\ r_slept = << >>
    /\ r_errors = << >>

\* func(*args, **kwargs) returns: the result is returned at once.
CallReturns ==
    /\ r_pc = "call"
    /\ r_calls' = r_calls + 1
    /\ r_pc' = "returned"
    /\ r_outcome' = [type |-> "result", at |-> attempt]
    /\ UNCHANGED <<max_retries, base_delay, backoff, retry_on, attempt,
                   last_exception, r_slept, r_errors>>
    /\ RetryFrame

\* func raises an exception of a class in retry_on.
CallRaisesCaught ==
    /\ r_pc = "call"
    /\ \E kind \in ErrorKinds :
        LET e == [type |-> "error", kind |-> kind, at |-> attempt] IN
        /\ IsRetryable(kind, retry_on)
        /\ r_calls' = r_calls + 1
        /\ r_errors' = Append(r_errors, e)
        /\ last_exception' = e
        /\ IF IsLastAttempt(attempt, max_retries)
           THEN /\ r_pc' = "raised"
                /\ r_outcome' = MaxRetriesExceeded(e)
                /\ r_slept' = r_slept
           ELSE /\ r_pc' = "sleep"
                /\ r_outcome' = r_outcome
                /\ r_slept' = Append(r_slept, Delay(base_delay, backoff, attempt))
    /\ UNCHANGED <<max_retries, base_delay, backoff, retry_on, attempt>>
    /\ RetryFrame

\* func raises an exception no class of retry_on matches: it leaves the
\* function through the try statement.
CallRaisesUncaught ==
    /\ r_pc = "call"
    /\ \E kind \in ErrorKinds :
        LET e == [type |-> "error", kind |-> kind, at |-> attempt] IN
        /\ ~IsRetryable(kind, retry_on)
        /\ r_calls' = r_calls + 1
        /\ r_errors' = Append(r_errors, e)
        /\ r_pc' = "raised"
        /\ r_outcome' = e
    /\ UNCHANGED <<max_retries, base_delay, backoff, retry_on, attempt,
                   last_exception, r_slept>>
    /\ RetryFrame

\* `await asyncio.sleep(delay)` returns and the loop takes its next value.
SleepDone ==
    /\ r_pc = "sleep"
    /\ attempt' = attempt + 1
    /\ r_pc' = IF InRange(attempt + 1, max_retries) THEN "call" ELSE "after_loop"
    /\ UNCHANGED <<max_retries, base_delay, backoff, retry_on, last_exception,
                   r_outcome, r_calls, r_slept, r_errors>>
    /\ RetryFrame

\* The statements after the loop.
AfterLoop ==
    /\ r_pc = "after_loop"
    /\ r_pc' = "raised"
    /\ r_outcome' = IF last_exception # Nil
                    THEN last_exception
                    ELSE [type |-> "error", kind |-> "RuntimeError", at |-> attempt]
    /\ UNCHANGED <<max_retries, base_delay, backoff, retry_on, attempt,
                   last_exception, r_calls, r_slept, r_errors>>
    /\ RetryFrame

RetryNext ==
    \/ CallReturns
    \/ CallRaisesCaught
    \/ CallRaisesUncaught
    \/ SleepDone
    \/ AfterLoop

(***************************************************************************)
(* Shared infrastructure: Redis keys and the request queues.               *)
(***************************************************************************)
Clients == 1 .. NumClients
Keys == {"k1"}
Endpoints == {"chat_auto", "chat_gpu", "chat_api"}
QueueTypes == {"gpu", "api"}
JobIds == 1 .. (NumClients + MaxJobs)

\* IdempotencyMiddleware._generate_key: f"idempotency:{endpoint}:{key}"
IdempotencyKey(endpoint, key) == <<"idempotency", endpoint, key>>
\* is_processing / mark_processing / unmark_processing:
\* f"processing:{endpoint}:{key}"
\* (ProcessingKeyUnscoped is the faulty variant that leaves the endpoint out.)
ProcessingKeyUnscoped(endpoint, key) == <<"processing", "chat_auto", key>>
ProcessingKey(endpoint, key) == <<"processing", endpoint, key>>
\* BaseWorker._update_job_status: f"job:{job_id}"
JobKey(job_id) == <<"job", job_id>>

RedisKeys ==
    {IdempotencyKey(e, k) : e \in Endpoints, k \in Keys}
        \cup {ProcessingKey(e, k) : e \in Endpoints, k \in Keys}
        \cup {JobKey(j) : j \in JobIds}

\* RedisCache.get: the stored value; None when the key is absent, when there
\* is no client and when Redis raises (the error is logged and swallowed).
CacheGet(up, store, key) == IF up THEN store[key] ELSE Nil
\* RedisCache.exists: False when there is no client and when Redis raises.
\* (CacheExistsNever is the faulty variant that finds no key.)
CacheExistsNever(up, store, key) == FALSE
\* (CacheExistsFailsClosed is the faulty variant that reports a key it
\* cannot read as present.)
CacheExistsFailsClosed(up, store, key) == ~up \/ store[key] # Nil
CacheExists(up, store, key) == up /\ store[key] # Nil
\* RedisCache.set: nothing is written when there is no client or Redis
\* raises; the error is logged and swallowed.
\* (CacheSetIfAbsent is the faulty variant that keeps an existing value.)
CacheSetIfAbsent(up, store, key, value) ==
    IF up /\ store[key] = Nil THEN [store EXCEPT ![key] = value] ELSE store
CacheSet(up, store, key, value) ==
    IF up THEN [store EXCEPT ![key] = value] ELSE store
\* RedisCache.delete, likewise.
\* (CacheDeleteNothing is the faulty variant that never deletes.)
CacheDeleteNothing(up, store, key) == store
CacheDelete(up, store, key) ==
    IF up THEN [store EXCEPT ![key] = Nil] ELSE store

\* QueueService._get_queue_name: the queue of a target mode.
\* (QueueNameSwapped is the faulty variant that returns the other queue.)
QueueNameSwapped(mode) == IF mode = "gpu" THEN "api" ELSE "gpu"
QueueName(mode) == mode

(***************************************************************************)
(* The router: chat_controller._route_to_queue and the three endpoints.    *)
(***************************************************************************)
\* chat_auto / chat_gpu / chat_api: `request.mode = ExecutionMode.X`
EndpointMode(endpoint) ==
    CASE endpoint = "chat_auto" -> "auto"
      [] endpoint = "chat_gpu" -> "gpu"
      [] endpoint = "chat_api" -> "api"

\* _route_to_queue, "Determine target queue": the target mode, or
\* "unavailable" where the code raises HTTPException(503).
\* (RouteTargetAutoToGpu and RouteTargetAutoToApi are the faulty variants
\* that ignore the GPU's availability for AUTO.)
RouteTargetAutoToGpu(mode, cuda) ==
    CASE mode = "gpu" -> IF cuda THEN "gpu" ELSE "unavailable"
      [] mode = "api" -> "api"
      [] OTHER -> "gpu"
RouteTargetAutoToApi(mode, cuda) ==
    CASE mode = "gpu" -> IF cuda THEN "gpu" ELSE "unavailable"
      [] mode = "api" -> "api"
      [] OTHER -> "api"
RouteTarget(mode, cuda) ==
    CASE mode = "gpu" -> IF cuda THEN "gpu" ELSE "unavailable"
      [] mode = "api" -> "api"
      [] OTHER -> IF cuda THEN "gpu" ELSE "api"

\* publish_chat_request: `job_id = str(uuid.uuid4())`: an id no earlier call
\* drew; `counter` is the number of ids drawn so far.
\* (NewJobIdFixed is the faulty variant that hands out one id to all.)
NewJobIdFixed(counter) == 1
NewJobId(counter) == counter + 1

\* QueueService.publish_chat_request: the message body.
Envelope(job_id, request, target_mode) ==
    [job_id |-> job_id, request |-> request, target_mode |-> target_mode,
     wellformed |-> TRUE, redelivered |-> FALSE]

\* The request the endpoint hands on: the caller's fields and the mode the
\* endpoint forces.
Request(endpoint, key) ==
    [idempotency_key |-> key, mode |-> EndpointMode(endpoint),
     priority |-> DefaultPriority]

\* The priorities a caller is seen to ask for: the lowest, the default and
\* the highest of 1 .. 10.
Priorities == {1, DefaultPriority, 10}

\* The same request with a priority of the caller's choice.
RequestWithPriority(endpoint, key, priority) ==
    [Request(endpoint, key) EXCEPT !.priority = priority]

\* publish_chat_request: `Message(..., priority=request.priority, ...)`
MessagePriority(msg) == msg.request.priority

\* ChatAsyncResponse(job_id=..., status=JobStatus.PENDING, idempotency_key=...)
\* (PendingResponseAsProcessing is the faulty variant that answers with
\* JobStatus.PROCESSING.)
PendingResponseAsProcessing(job_id, key) ==
    [type |-> "ChatAsyncResponse", job_id |-> job_id, status |-> "processing",
     idempotency_key |-> key]
PendingResponse(job_id, key) ==
    [type |-> "ChatAsyncResponse", job_id |-> job_id, status |-> "pending",
     idempotency_key |-> key]

HttpError(code) == [type |-> "HTTPException", status_code |-> code]

\* `isinstance(result, dict)`
IsDict(result) == result.type = "dict"

\* A dict a wrapped operation returns, by its items; << >> is {}.
Dict(items) == [type |-> "dict", items |-> items]

\* RedisCache.set: `if isinstance(value, (dict, list)): value =
\* json.dumps(value)`: the JSON text of a dict; the text of {} is "{}".
JsonDumps(value) == [type |-> "str", json |-> value.items]
\* get_cached_response: `json.loads(cached)`
JsonLoads(text) == Dict(text.json)

\* Python's truth value, as `if cached:` takes it: None is false, a dict is
\* true unless it is empty, a JSON text is a non-empty string and so true.
Truthy(value) ==
    /\ value # Nil
    /\ IsDict(value) => value.items # << >>

\* IdempotencyMiddleware.get_cached_response: `cached = await
\* self.cache.get(key)`; `if cached: return json.loads(cached)`;
\* `return None`.
CachedResponse(up, store, endpoint, key) ==
    LET cached == CacheGet(up, store, IdempotencyKey(endpoint, key))
    IN IF Truthy(cached) THEN JsonLoads(cached) ELSE Nil

(***************************************************************************)
(* IdempotencyMiddleware.idempotent: the wrapper, one step per await.      *)
(***************************************************************************)
\* The HTTP process touches nothing of a retry call.
GuardFrame == UNCHANGED <<retryVars, workerVars, pollVars, clockVars>>

\* Redis and the broker before any request: no key, no message.
SharedInit ==
    /\ now = 0
    /\ redis = [k \in RedisKeys |-> Nil]
    /\ queues = [q \in QueueTypes |-> << >>]
    /\ next_uuid = 0

\* The HTTP process after import: QueueService.__init__ leaves connection
\* None; Redis and RabbitMQ are reachable or not.
GuardInit ==
    /\ connection = FALSE
    /\ cache_up \in BOOLEAN
    /\ broker_up \in BOOLEAN
    /\ outages = 0
    /\ expiries = 0
    /\ c_pc = [c \in Clients |-> "idle"]
    /\ c_req = [c \in Clients |-> Nil]
    /\ c_result = [c \in Clients |-> Nil]
    /\ c_outcome = [c \in Clients |-> Nil]

\* A POST arrives at endpoint e with an idempotency_key.
ReceiveAt(c, e) ==
    /\ c_pc[c] = "idle"
    /\ \E k \in Keys :
        c_req' = [c_req EXCEPT ![c] = [endpoint |-> e, idempotency_key |-> k]]
    /\ c_pc' = [c_pc EXCEPT ![c] = "get_cached_response"]
    /\ UNCHANGED <<sharedVars, connection, cache_up, broker_up, outages,
                   expiries, c_result, c_outcome>>
    /\ GuardFrame

Receive(c) == \E e \in Endpoints : ReceiveAt(c, e)

\* `cached = await self.get_cached_response(...)`; `if cached: return cached`
GetCachedResponse(c) ==
    /\ c_pc[c] = "get_cached_response"
    /\ LET cached == CachedResponse(cache_up, redis, c_req[c].endpoint,
                                    c_req[c].idempotency_key)
       IN IF Truthy(cached)
          THEN /\ c_pc' = [c_pc EXCEPT ![c] = "done"]
               /\ c_outcome' = [c_outcome EXCEPT ![c] =
                      [type |-> "returned", value |-> cached, cached |-> TRUE]]
          ELSE /\ c_pc' = [c_pc EXCEPT ![c] = "is_processing"]
               /\ c_outcome' = c_outcome
    /\ UNCHANGED <<sharedVars, connection, cache_up, broker_up, outages,
                   expiries, c_req, c_result>>
    /\ GuardFrame

\* `if await self.is_processing(...): raise ValueError(idempotency_conflict)`
IsProcessing(c) ==
    /\ c_pc[c] = "is_processing"
    /\ IF CacheExists(cache_up, redis,
              ProcessingKey(c_req[c].endpoint, c_req[c].idempotency_key))
       THEN /\ c_pc' = [c_pc EXCEPT ![c] = "done"]
            /\ c_outcome' = [c_outcome EXCEPT ![c] =
                   [type |-> "raised", error |-> "IDEMPOTENCY_CONFLICT"]]
       ELSE /\ c_pc' = [c_pc EXCEPT ![c] = "mark_processing"]
            /\ c_outcome' = c_outcome
    /\ UNCHANGED <<sharedVars, connection, cache_up, broker_up, outages,
                   expiries, c_req, c_result>>
    /\ GuardFrame

\* `await self.mark_processing(...)`: cache.set(key, "1", ttl=300)
MarkProcessing(c) ==
    /\ c_pc[c] = "mark_processing"
    /\ redis' = CacheSet(cache_up, redis,
                    ProcessingKey(c_req[c].endpoint, c_req[c].idempotency_key),
                    [type |-> "str", value |-> "1"])
    /\ c_pc' = [c_pc EXCEPT ![c] = "func"]
    /\ UNCHANGED <<queues, next_uuid, cuda_available, connection, cache_up,
                   broker_up, outages, expiries, c_req, c_result, c_outcome>>
    /\ GuardFrame

\* `result = await func(*args, **kwargs)`: the endpoint and _route_to_queue.
\* The connection is made first when there is none; then the target is
\* chosen; then publish_chat_request draws the job id and publishes.
\* HTTPException passes through the endpoint, any other exception becomes
\* HTTPException(500).
Func(c) ==
    /\ c_pc[c] = "func"
    /\ LET request == Request(c_req[c].endpoint, c_req[c].idempotency_key)
           target == RouteTarget(request.mode, cuda_available)
       IN IF ~connection /\ ~broker_up
          THEN \* queue_service.connect() raises
               /\ c_result' = [c_result EXCEPT ![c] = HttpError(500)]
               /\ UNCHANGED <<queues, next_uuid, connection>>
          ELSE IF target = "unavailable"
          THEN /\ c_result' = [c_result EXCEPT ![c] = HttpError(503)]
               /\ connection' = TRUE
               /\ UNCHANGED <<queues, next_uuid>>
          ELSE IF ~broker_up
          THEN \* the publish raises after uuid4() was drawn
               /\ c_result' = [c_result EXCEPT ![c] = HttpError(500)]
               /\ next_uuid' = next_uuid + 1
               /\ connection' = TRUE
               /\ UNCHANGED queues
          ELSE /\ next_uuid' = next_uuid + 1
               /\ queues' = [queues EXCEPT ![QueueName(target)] =
                      Append(@, Envelope(NewJobId(next_uuid), request, target))]
               /\ c_result' = [c_result EXCEPT ![c] =
                      PendingResponse(NewJobId(next_uuid), request.idempotency_key)]
               /\ connection' = TRUE
    /\ c_pc' = [c_pc EXCEPT ![c] =
           IF c_result'[c].type = "HTTPException"
           THEN "unmark_processing" ELSE "cache_response"]
    /\ UNCHANGED <<redis, cuda_available, cache_up, broker_up, outages,
                   expiries, c_req, c_outcome>>
    /\ GuardFrame

\* `if isinstance(result, dict): await self.cache_response(...)`
CacheResponse(c) ==
    /\ c_pc[c] = "cache_response"
    /\ redis' = IF IsDict(c_result[c])
                THEN CacheSet(cache_up, redis,
                         IdempotencyKey(c_req[c].endpoint, c_req[c].idempotency_key),
                         JsonDumps(c_result[c]))
                ELSE redis
    /\ c_pc' = [c_pc EXCEPT ![c] = "unmark_processing"]
    /\ UNCHANGED <<queues, next_uuid, cuda_available, connection, cache_up,
                   broker_up, outages, expiries, c_req, c_result, c_outcome>>
    /\ GuardFrame

\* `finally: await self.unmark_processing(...)`, then the return or the
\* exception leaves the wrapper.
\* (UnmarkProcessingOnReturn is the faulty variant without the `finally`:
\* the marker is deleted only when the operation returned.)
UnmarkProcessingOnReturn(c) ==
    /\ c_pc[c] = "unmark_processing"
    /\ redis' = IF c_result[c].type = "HTTPException"
                THEN redis
                ELSE CacheDelete(cache_up, redis,
                         ProcessingKey(c_req[c].endpoint, c_req[c].idempotency_key))
    /\ c_pc' = [c_pc EXCEPT ![c] = "done"]
    /\ c_outcome' = [c_outcome EXCEPT ![c] =
           IF c_result[c].type = "HTTPException"
           THEN [type |-> "raised", error |-> c_result[c]]
           ELSE [type |-> "returned", value |-> c_result[c], cached |-> FALSE]]
    /\ UNCHANGED <<queues, next_uuid, cuda_available, connection, cache_up,
                   broker_up, outages, expiries, c_req, c_result>>
    /\ GuardFrame
UnmarkProcessing(c) ==
    /\ c_pc[c] = "unmark_processing"
    /\ redis' = CacheDelete(cache_up, redis,
                    ProcessingKey(c_req[c].endpoint, c_req[c].idempotency_key))
    /\ c_pc' = [c_pc EXCEPT ![c] = "done"]
    /\ c_outcome' = [c_outcome EXCEPT ![c] =
           IF c_result[c].type = "HTTPException"
           THEN [type |-> "raised", error |-> c_result[c]]
           ELSE [type |-> "returned", value |-> c_result[c], cached |-> FALSE]]
    /\ UNCHANGED <<queues, next_uuid, cuda_available, connection, cache_up,
                   broker_up, outages, expiries, c_req, c_result>>
    /\ GuardFrame

\* Environment: Redis becomes unreachable, or reachable again.
CacheOutage ==
    /\ outages < MaxOutages
    /\ cache_up' = ~cache_up
    /\ outages' = outages + 1
    /\ UNCHANGED <<sharedVars, connection, broker_up, expiries,
                   c_pc, c_req, c_result, c_outcome>>
    /\ GuardFrame

\* Environment: RabbitMQ becomes unreachable, or reachable again.
BrokerOutage ==
    /\ outages < MaxOutages
    /\ broker_up' = ~broker_up
    /\ outages' = outages + 1
    /\ UNCHANGED <<sharedVars, connection, cache_up, expiries,
                   c_pc, c_req, c_result, c_outcome>>
    /\ GuardFrame

\* Environment: Redis drops the processing marker of (e, k), set with
\* SETEX, when its TTL (300 s) has run out.  expiries counts the expiries so
\* far, up to MaxExpiries.
\* (MarkerPersists is the faulty variant, a marker set without a TTL.)
MarkerPersists(e, k) == FALSE
MarkerExpires(e, k) ==
    /\ redis[ProcessingKey(e, k)] # Nil
    /\ redis' = [redis EXCEPT ![ProcessingKey(e, k)] = Nil]
    /\ expiries' = IF expiries < MaxExpiries THEN expiries + 1 ELSE expiries
    /\ UNCHANGED <<queues, next_uuid, cuda_available, connection, cache_up,
                   broker_up, outages, c_pc, c_req, c_result, c_outcome>>
    /\ GuardFrame

ExpireMarker == \E e \in Endpoints, k \in Keys : MarkerExpires(e, k)

GuardNext ==
    \/ \E c \in Clients : Receive(c)
    \/ \E c \in Clients : GetCachedResponse(c)
    \/ \E c \in Clients : IsProcessing(c)
    \/ \E c \in Clients : MarkProcessing(c)
    \/ \E c \in Clients : Func(c)
    \/ \E c \in Clients : CacheResponse(c)
    \/ \E c \in Clients : UnmarkProcessing(c)
    \/ CacheOutage
    \/ BrokerOutage
    \/ ExpireMarker

\* What a wrapped operation may hand back to the wrapper: a dict, which may
\* be empty, or an exception.
OperationResults ==
    {Dict(<< >>), Dict(<<"r1">>), Dict(<<"r2">>), HttpError(500)}

\* `result = await func(*args, **kwargs)` for any wrapped operation: it
\* returns a dict or raises; the wrapper goes on to cache the result, or
\* straight to its finally block.
WrappedOperation(c) ==
    /\ c_pc[c] = "func"
    /\ \E result \in OperationResults :
        /\ c_result' = [c_result EXCEPT ![c] = result]
        /\ c_pc' = [c_pc EXCEPT ![c] =
               IF result.type = "HTTPException"
               THEN "unmark_processing" ELSE "cache_response"]
    /\ UNCHANGED <<sharedVars, connection, cache_up, broker_up, outages,
                   expiries, c_req, c_outcome>>
    /\ GuardFrame

\* Environment: the HTTP process dies while a request is between
\* mark_processing and unmark_processing; its finally block never runs.
CallerCrash(c) ==
    /\ c_pc[c] \in {"func", "cache_response", "unmark_processing"}
    /\ c_pc' = [c_pc EXCEPT ![c] = "done"]
    /\ c_outcome' = [c_outcome EXCEPT ![c] = [type |-> "crashed"]]
    /\ UNCHANGED <<sharedVars, connection, cache_up, broker_up, outages,
                   expiries, c_req, c_result>>
    /\ GuardFrame

\* One step of a request inside the wrapper, around any wrapped operation.
WrapperStep(c) ==
    \/ GetCachedResponse(c)
    \/ IsProcessing(c)
    \/ MarkProcessing(c)
    \/ WrappedOperation(c)
    \/ CacheResponse(c)
    \/ UnmarkProcessing(c)

\* The requests to one endpoint: the wrapper keys the cached response and
\* the marker by (endpoint, idempotency_key), so requests to different
\* endpoints share nothing.
IdemNext ==
    \/ \E c \in Clients : ReceiveAt(c, "chat_auto")
    \/ \E c \in Clients : WrapperStep(c)
    \/ \E c \in Clients : CallerCrash(c)
    \/ CacheOutage
    \/ ExpireMarker

\* Requests to every endpoint, through the wrapper around the endpoint's
\* own operation or around an operation that returns a dict.
ScopeNext ==
    \/ \E c \in Clients : Receive(c)
    \/ \E c \in Clients : WrapperStep(c)
    \/ \E c \in Clients : Func(c)

\* Requests to every endpoint with Redis answering throughout; RabbitMQ may
\* go away and come back.
RouteNext ==
    \/ \E c \in Clients : Receive(c)
    \/ \E c \in Clients : GetCachedResponse(c)
    \/ \E c \in Clients : IsProcessing(c)
    \/ \E c \in Clients : MarkProcessing(c)
    \/ \E c \in Clients : Func(c)
    \/ \E c \in Clients : CacheResponse(c)
    \/ \E c \in Clients : UnmarkProcessing(c)
    \/ BrokerOutage

\* The same with Redis staying as it is at the start, reachable or not.
IdemLiveNext ==
    \/ \E c \in Clients : ReceiveAt(c, "chat_auto")
    \/ \E c \in Clients : WrapperStep(c)
    \/ \E c \in Clients : CallerCrash(c)
    \/ ExpireMarker

(***************************************************************************)
(* The broker and the workers: QueueService.consume_queue and              *)
(* BaseWorker.process_message, one step per await.                         *)
(***************************************************************************)
Workers == QueueTypes    \* one worker process per queue; its queue_type

\* ChatAsyncResponse(job_id, status, idempotency_key or job_id, result, error)
\* as _update_job_status builds it: every field comes from the arguments,
\* but created_at, which is left to its default_factory, datetime.utcnow.
\* (JobRecordNoError is the faulty variant that drops the error.)
JobRecordNoError(job_id, status, result, error, idempotency_key) ==
    [job_id |-> job_id, status |-> status,
     idempotency_key |-> IF idempotency_key # None THEN idempotency_key
                         ELSE ToString(job_id),
     result |-> result, error |-> None, created_at |-> now]
JobRecord(job_id, status, result, error, idempotency_key) ==
    [job_id |-> job_id, status |-> status,
     idempotency_key |-> IF idempotency_key # None THEN idempotency_key
                         ELSE ToString(job_id),
     result |-> result, error |-> error, created_at |-> now]

\* ChatResponse(response=response_text, mode=self.queue_type, latency_ms=...)
\* (ChatResponseGpuTag is the faulty variant with a fixed tag.)
ChatResponseGpuTag(w, a) == [mode |-> "gpu", attempt |-> a]
ChatResponse(w, a) == [mode |-> w, attempt |-> a]

\* A body json.loads rejects; it carries no job id (0 is none of JobIds).
MalformedEnvelope ==
    [job_id |-> 0, request |-> Nil, target_mode |-> None,
     wellformed |-> FALSE, redelivered |-> FALSE]

\* `request_data.get("idempotency_key") if request_data else None`
EnvelopeKey(msg) ==
    IF msg.request # Nil THEN msg.request.idempotency_key ELSE None

\* `json.loads(message.body.decode())` raises.
\* (ParseFailsNever is the faulty variant that lets every body through.)
ParseFailsNever(msg) == FALSE
ParseFails(msg) == ~msg.wellformed

\* `if target_mode != self.queue_type`
\* (WrongQueueNever is the faulty variant without the check.)
WrongQueueNever(msg, w) == FALSE
WrongQueue(msg, w) == msg.target_mode # w

\* The status the Job Store shows for a job id: ChatWorker.get_job_status
\* answers PENDING when there is no record.
StoredStatus(store, j) ==
    IF store[JobKey(j)] = Nil THEN "pending" ELSE store[JobKey(j)].status
StoredResult(store, j) ==
    IF store[JobKey(j)] = Nil THEN Nil ELSE store[JobKey(j)].result

WorkerInit ==
    /\ dlq = [q \in QueueTypes |-> << >>]
    /\ responses = [j \in JobIds |-> None]
    /\ w_pc = [w \in Workers |-> "consuming"]
    /\ w_msg = [w \in Workers |-> Nil]
    /\ w_attempt = [w \in Workers |-> 0]
    /\ w_result = [w \in Workers |-> Nil]
    /\ w_exc = [w \in Workers |-> None]
    /\ faults = 0

\* What the HTTP process's own state is while only the workers are observed.
HttpIdle ==
    /\ connection = TRUE
    /\ cache_up = TRUE
    /\ broker_up = TRUE
    /\ outages = 0
    /\ expiries = 0
    /\ c_pc = [c \in Clients |-> "idle"]
    /\ c_req = [c \in Clients |-> Nil]
    /\ c_result = [c \in Clients |-> Nil]
    /\ c_outcome = [c \in Clients |-> Nil]

WorkerFrame == UNCHANGED <<retryVars, guardVars, pollVars, clockVars>>

\* A submit reaches _route_to_queue and publish_chat_request publishes its
\* envelope (the wrapper around it is the subject of GuardSpec).
SubmitRequest(request) ==
    /\ next_uuid < MaxJobs
    /\ LET target == RouteTarget(request.mode, cuda_available)
       IN /\ target # "unavailable"
          /\ queues' = [queues EXCEPT ![QueueName(target)] =
                 Append(@, Envelope(NewJobId(next_uuid), request, target))]
    /\ next_uuid' = next_uuid + 1
    /\ UNCHANGED <<redis, cuda_available, workerVars>>
    /\ WorkerFrame

\* A submit that leaves the priority at its default.
Submit == \E e \in Endpoints, k \in Keys : SubmitRequest(Request(e, k))

\* A submit with a priority of the caller's choice.
SubmitWithPriority ==
    \E e \in Endpoints, k \in Keys, p \in Priorities :
        SubmitRequest(RequestWithPriority(e, k, p))

\* Another program publishes to a request queue: a body that is not JSON,
\* or an envelope whose target_mode is not the queue's.
ForeignPublish ==
    /\ next_uuid < MaxJobs
    /\ \E q \in QueueTypes, k \in Keys, bad \in BOOLEAN :
        LET other == CHOOSE t \in QueueTypes : t # q
            msg == IF bad THEN MalformedEnvelope
                   ELSE Envelope(next_uuid + 1, Request("chat_auto", k), other)
        IN queues' = [queues EXCEPT ![q] = Append(@, msg)]
    /\ next_uuid' = next_uuid + 1
    /\ UNCHANGED <<redis, cuda_available, dlq, responses, w_pc, w_msg,
                   w_attempt, w_result, w_exc, faults>>
    /\ WorkerFrame

\* The messages the broker has delivered to a worker's consumer and that
\* are not acknowledged or rejected yet.
Unacked(w) == IF w_msg[w] = Nil THEN 0 ELSE 1

\* connect: `await self.channel.set_qos(prefetch_count=
\* settings.WORKER_PREFETCH_COUNT)`: the broker delivers to a consumer only
\* while it holds fewer unacknowledged messages than the prefetch count.
\* (PrefetchUnlimited is the faulty variant without set_qos.)
PrefetchUnlimited(held) == TRUE
PrefetchAllows(held) == held < WORKER_PREFETCH_COUNT

\* _declare_queues: the arguments of the request queues hold no
\* x-max-priority, so the broker keeps them as plain queues.
HasMaxPriority == FALSE

\* The position of the message the broker delivers next from a non-empty
\* queue: in a priority queue the earliest of the messages of the highest
\* priority, in a plain queue the head, whatever the messages' priority
\* property says.
NextDelivery(queue) ==
    IF HasMaxPriority
    THEN CHOOSE i \in 1 .. Len(queue) :
             \A j \in 1 .. Len(queue) :
                 \/ MessagePriority(queue[i]) > MessagePriority(queue[j])
                 \/ MessagePriority(queue[i]) = MessagePriority(queue[j]) /\ i <= j
    ELSE 1

RemoveAt(queue, i) == SubSeq(queue, 1, i - 1) \o SubSeq(queue, i + 1, Len(queue))

\* consume_queue: `async for message in queue_iter`: the broker hands the
\* next message of the queue to the consumer of a running worker, within
\* the prefetch limit.
Deliver(w) ==
    /\ w_pc[w] # "stopped"
    /\ PrefetchAllows(Unacked(w))
    /\ queues[w] # << >>
    /\ w_msg' = [w_msg EXCEPT ![w] = queues[w][NextDelivery(queues[w])]]
    /\ queues' = [queues EXCEPT ![w] = RemoveAt(@, NextDelivery(queues[w]))]
    /\ w_pc' = [w_pc EXCEPT ![w] = "process_message"]
    /\ UNCHANGED <<redis, next_uuid, cuda_available, dlq, responses,
                   w_attempt, w_result, w_exc, faults>>
    /\ WorkerFrame

\* process_message up to its first await: the parse, the queue check and
\* the start of _update_job_status(PROCESSING).
\* (ProcessMessageNoProcessingWrite is the faulty variant that goes from the
\* queue check straight to _process_with_retry.)
ProcessMessageNoProcessingWrite(w) ==
    /\ w_pc[w] = "process_message"
    /\ IF ParseFails(w_msg[w])
       THEN /\ w_exc' = [w_exc EXCEPT ![w] = "JSONDecodeError"]
            /\ w_pc' = [w_pc EXCEPT ![w] = "raise"]
       ELSE IF WrongQueue(w_msg[w], w)
       THEN /\ w_exc' = w_exc
            /\ w_pc' = [w_pc EXCEPT ![w] = "return"]
       ELSE /\ w_exc' = w_exc
            /\ w_pc' = [w_pc EXCEPT ![w] = "generate"]
    /\ UNCHANGED <<sharedVars, dlq, responses, w_msg, w_attempt, w_result,
                   faults>>
    /\ WorkerFrame
ProcessMessage(w) ==
    /\ w_pc[w] = "process_message"
    /\ IF ParseFails(w_msg[w])
       THEN \* json.loads raises; job_id is None, so no FAILED write; re-raised
            /\ w_exc' = [w_exc EXCEPT ![w] = "JSONDecodeError"]
            /\ w_pc' = [w_pc EXCEPT ![w] = "raise"]
       ELSE IF WrongQueue(w_msg[w], w)
       THEN \* `return`: the handler ends normally
            /\ w_exc' = w_exc
            /\ w_pc' = [w_pc EXCEPT ![w] = "return"]
       ELSE /\ w_exc' = w_exc
            /\ w_pc' = [w_pc EXCEPT ![w] = "update_processing"]
    /\ UNCHANGED <<sharedVars, dlq, responses, w_msg, w_attempt, w_result,
                   faults>>
    /\ WorkerFrame

\* QueueService.publish_response: the event for job_id, carrying the
\* response's status, goes to the responses queue.
\* (PublishResponseNotOnFailure is the faulty variant that reports no
\* failure.)
PublishResponseNotOnFailure(events, job_id, status) ==
    IF status = "failed" THEN events ELSE [events EXCEPT ![job_id] = status]
PublishResponse(events, job_id, status) == [events EXCEPT ![job_id] = status]

\* BaseWorker._update_job_status: `await self.cache.set(cache_key, ...)`
\* overwrites the record, or Redis fails and RedisCache.set swallows the
\* error; then `await self.queue.publish_response(...)` publishes the event,
\* or raises.  `caught` says the call sits in the inner try of the except
\* block, which drops its exception.
UpdateJobStatus(w, pc, status, next, onError, caught) ==
    /\ w_pc[w] = pc
    /\ \E set_ok \in BOOLEAN, pub_ok \in BOOLEAN :
        LET cost == (IF set_ok THEN 0 ELSE 1) + (IF pub_ok THEN 0 ELSE 1) IN
        /\ faults + cost <= MaxFaults
        /\ faults' = faults + cost
        /\ redis' = CacheSet(set_ok, redis, JobKey(w_msg[w].job_id),
               JobRecord(w_msg[w].job_id, status,
                         IF status = "completed" THEN w_result[w] ELSE Nil,
                         IF status = "failed" THEN w_exc[w] ELSE None,
                         EnvelopeKey(w_msg[w])))
        /\ responses' = IF pub_ok
                        THEN PublishResponse(responses, w_msg[w].job_id, status)
                        ELSE responses
        /\ w_pc' = [w_pc EXCEPT ![w] = IF pub_ok THEN next ELSE onError]
        /\ w_exc' = IF pub_ok \/ caught THEN w_exc
                    ELSE [w_exc EXCEPT ![w] = "PublishError"]
    /\ UNCHANGED <<queues, next_uuid, cuda_available, dlq, w_msg, w_attempt,
                   w_result>>
    /\ WorkerFrame

\* `await self._update_job_status(job_id, JobStatus.PROCESSING, ...)`
UpdateProcessing(w) ==
    UpdateJobStatus(w, "update_processing", "processing", "generate",
                    "update_failed", FALSE)

\* _process_with_retry: one invocation of generate_response under
\* with_retry(MAX_RETRIES, RETRY_DELAY, RETRY_BACKOFF), retry_on=(Exception,).
GenerateSucceeds(w) ==
    /\ w_pc[w] = "generate"
    /\ w_result' = [w_result EXCEPT ![w] = ChatResponse(w, w_attempt[w])]
    /\ w_pc' = [w_pc EXCEPT ![w] = "update_completed"]
    /\ UNCHANGED <<sharedVars, dlq, responses, w_msg, w_attempt, w_exc, faults>>
    /\ WorkerFrame

\* generate_response raises: the last attempt raises MaxRetriesExceeded,
\* any earlier one sleeps the backoff delay and the loop goes on.
GenerateFails(w) ==
    /\ w_pc[w] = "generate"
    /\ IF IsLastAttempt(w_attempt[w], MAX_RETRIES)
       THEN /\ w_exc' = [w_exc EXCEPT ![w] = "MAX_RETRIES_EXCEEDED"]
            /\ w_pc' = [w_pc EXCEPT ![w] = "update_failed"]
            /\ w_attempt' = w_attempt
       ELSE /\ w_attempt' = [w_attempt EXCEPT ![w] = @ + 1]
            /\ UNCHANGED <<w_exc, w_pc>>
    /\ UNCHANGED <<sharedVars, dlq, responses, w_msg, w_result, faults>>
    /\ WorkerFrame

\* `await self._update_job_status(job_id, JobStatus.COMPLETED, result=...)`
UpdateCompleted(w) ==
    UpdateJobStatus(w, "update_completed", "completed", "return",
                    "update_failed", FALSE)

\* `except Exception as e`: `if job_id:` _update_job_status(FAILED, str(e)),
\* whose own failure is logged and dropped; then `raise`.
UpdateFailed(w) ==
    UpdateJobStatus(w, "update_failed", "failed", "raise", "raise", TRUE)

\* consume_queue: process_message returned, `async with message.process()`
\* leaves without an exception: the message is acknowledged, the loop waits
\* for the next one.
Ack(w) ==
    /\ w_pc[w] = "return"
    /\ w_pc' = [w_pc EXCEPT ![w] = "consuming"]
    /\ w_msg' = [w_msg EXCEPT ![w] = Nil]
    /\ w_attempt' = [w_attempt EXCEPT ![w] = 0]
    /\ w_result' = [w_result EXCEPT ![w] = Nil]
    /\ w_exc' = [w_exc EXCEPT ![w] = None]
    /\ UNCHANGED <<sharedVars, dlq, responses, faults>>
    /\ WorkerFrame

\* `message.process()`: its requeue argument is left at the default, False.
\* (ProcessRequeueTrue is the faulty variant process(requeue=True).)
ProcessRequeueTrue == TRUE
ProcessRequeue == FALSE

\* consume_queue: process_message raised: message.process() rejects the
\* message without requeue, so the broker dead-letters it to the queue's
\* x-dead-letter-routing-key; the exception is re-raised out of the
\* `async for`, out of consume_queue and out of BaseWorker.start, which
\* catches asyncio.CancelledError only.
Reject(w) ==
    /\ w_pc[w] = "raise"
    /\ IF ProcessRequeue
       THEN /\ queues' = [queues EXCEPT ![w] = Append(@, w_msg[w])]
            /\ dlq' = dlq
       ELSE /\ dlq' = [dlq EXCEPT ![w] = Append(@, w_msg[w])]
            /\ queues' = queues
    /\ w_pc' = [w_pc EXCEPT ![w] = "stopped"]
    /\ w_msg' = [w_msg EXCEPT ![w] = Nil]
    /\ UNCHANGED <<redis, next_uuid, cuda_available, responses, w_attempt,
                   w_result, w_exc, faults>>
    /\ WorkerFrame

\* Environment: a worker process dies while it holds an unacknowledged
\* message; the broker requeues the message, flagged redelivered, and the
\* process is started again.
Crash(w) ==
    /\ w_msg[w] # Nil
    /\ faults < MaxFaults
    /\ faults' = faults + 1
    /\ queues' = [queues EXCEPT ![w] = <<[w_msg[w] EXCEPT !.redelivered = TRUE]>> \o @]
    /\ w_pc' = [w_pc EXCEPT ![w] = "consuming"]
    /\ w_msg' = [w_msg EXCEPT ![w] = Nil]
    /\ w_attempt' = [w_attempt EXCEPT ![w] = 0]
    /\ w_result' = [w_result EXCEPT ![w] = Nil]
    /\ w_exc' = [w_exc EXCEPT ![w] = None]
    /\ UNCHANGED <<redis, next_uuid, cuda_available, dlq, responses>>
    /\ WorkerFrame

\* _declare_queues: the queue a request queue dead-letters to, its
\* x-dead-letter-routing-key on the default exchange: QUEUE_DLQ_GPU for the
\* GPU queue, QUEUE_DLQ_API for the API queue.
\* (DeadLetterQueueSwapped is the faulty variant with the two keys swapped.)
DeadLetterQueueSwapped(q) == CHOOSE t \in QueueTypes : t # q
DeadLetterQueue(q) == q

\* Broker: the message at the head of a request queue has waited for the
\* queue's x-message-ttl (600000 ms) without being consumed; it is
\* dead-lettered.  No consumer is declared on a dead-letter queue.
MessageExpires(q) ==
    /\ queues[q] # << >>
    /\ dlq' = [dlq EXCEPT ![DeadLetterQueue(q)] = Append(@, Head(queues[q]))]
    /\ queues' = [queues EXCEPT ![q] = Tail(@)]
    /\ UNCHANGED <<redis, next_uuid, cuda_available, responses, w_pc, w_msg,
                   w_attempt, w_result, w_exc, faults>>
    /\ WorkerFrame

Next ==
    \/ Submit
    \/ ForeignPublish
    \/ \E w \in Workers : Deliver(w)
    \/ \E w \in Workers : ProcessMessage(w)
    \/ \E w \in Workers : UpdateProcessing(w)
    \/ \E w \in Workers : GenerateSucceeds(w)
    \/ \E w \in Workers : GenerateFails(w)
    \/ \E w \in Workers : UpdateCompleted(w)
    \/ \E w \in Workers : UpdateFailed(w)
    \/ \E w \in Workers : Ack(w)
    \/ \E w \in Workers : Reject(w)
    \/ \E w \in Workers : Crash(w)

(***************************************************************************)
(* GET /status/{job_id}: ChatWorker.get_job_status.                        *)
(***************************************************************************)
\* `cached = await self.cache.get(f"job:{job_id}")`; the stored record when
\* there is one, otherwise ChatAsyncResponse(job_id, PENDING,
\* idempotency_key=job_id), whose result and error default to None.
\* (GetJobStatusNotFound is the faulty variant that reports an unknown job
\* as an error.)
GetJobStatusNotFound(up, store, j) ==
    LET cached == CacheGet(up, store, JobKey(j)) IN
    IF cached # Nil THEN cached
    ELSE JobRecord(j, "failed", Nil, "JOB_NOT_FOUND", None)
GetJobStatusReply(up, store, j) ==
    LET cached == CacheGet(up, store, JobKey(j)) IN
    IF cached # Nil THEN cached
    ELSE [job_id |-> j, status |-> "pending", idempotency_key |-> ToString(j),
          result |-> Nil, error |-> None, created_at |-> now]

\* The records a worker writes for job j (see UpdateJobStatus); the key is
\* the envelope's.
WrittenRecords(j) ==
    {JobRecord(j, "processing", Nil, None, k) : k \in Keys}
    \cup {JobRecord(j, "completed", ChatResponse(w, 0), None, k) :
              w \in Workers, k \in Keys}
    \cup {JobRecord(j, "failed", Nil, "MAX_RETRIES_EXCEEDED", k) : k \in Keys}

PollIdle == poll = Nil

PollFrame == UNCHANGED <<retryVars, workerVars, queues, next_uuid,
                         cuda_available, connection, broker_up, c_pc, c_req,
                         c_result, c_outcome, clockVars>>

\* The endpoint get_job_status: the reply goes to the caller; nothing is
\* written.
GetJobStatus(j) ==
    /\ poll' = GetJobStatusReply(cache_up, redis, j)
    /\ UNCHANGED <<redis, cache_up, outages, expiries>>
    /\ PollFrame

\* Environment: Redis drops a job record whose TTL (JOB_TTL) has run out.
JobExpires(j) ==
    /\ expiries < MaxExpiries
    /\ redis[JobKey(j)] # Nil
    /\ redis' = [redis EXCEPT ![JobKey(j)] = Nil]
    /\ expiries' = expiries + 1
    /\ UNCHANGED <<cache_up, outages, poll>>
    /\ PollFrame

PollNext ==
    \/ \E j \in JobIds : GetJobStatus(j)
    \/ \E j \in JobIds : JobExpires(j)
    \/ CacheOutage

(***************************************************************************)
(* Specifications.                                                         *)
(***************************************************************************)
\* What a specification's Init says of the variables it does not use.
RetryIdle ==
    /\ max_retries = MAX_RETRIES
    /\ base_delay = RETRY_DELAY
    /\ backoff = RETRY_BACKOFF
    /\ retry_on = ErrorKinds
    /\ attempt = 0
    /\ last_exception = Nil
    /\ r_pc = "idle"
    /\ r_outcome = Nil
    /\ r_calls = 0
    /\ r_slept = << >>
    /\ r_errors = << >>

\* The workers with the HTTP process's router (Submit) in front of them.
Init ==
    /\ SharedInit
    /\ cuda_available \in BOOLEAN
    /\ WorkerInit
    /\ HttpIdle
    /\ RetryIdle
    /\ PollIdle

Spec == Init /\ [][Next]_vars

\* Concurrent submits through the idempotent wrapper.
GuardSpecInit ==
    /\ SharedInit
    /\ cuda_available \in BOOLEAN
    /\ GuardInit
    /\ WorkerInit
    /\ RetryIdle
    /\ PollIdle

GuardSpec == GuardSpecInit /\ [][GuardNext]_vars

\* The HTTP process with no request yet; the broker plays no part.
IdemInit ==
    /\ SharedInit
    /\ cuda_available = FALSE
    /\ GuardInit
    /\ broker_up
    /\ WorkerInit
    /\ RetryIdle
    /\ PollIdle

\* The HTTP process with Redis reachable; the GPU is present or not and
\* RabbitMQ reachable or not.
RouteInit ==
    /\ GuardSpecInit
    /\ cache_up

\* The route calls of concurrent submits.
RouteSpec == RouteInit /\ [][RouteNext]_vars

\* The wrapper on the three endpoints, no outage and no expiry.
ScopeSpec == IdemInit /\ [][ScopeNext]_vars

\* The idempotent wrapper around any operation, Redis reachable or not.
IdemSpec == IdemInit /\ [][IdemNext]_vars

\* The wrapper under fair scheduling: a request inside the wrapper goes on
\* unless its process dies, and Redis drops a key when its TTL has run out.
IdemLiveSpec ==
    /\ IdemInit
    /\ [][IdemLiveNext]_vars
    /\ \A c \in Clients : WF_vars(WrapperStep(c))
    /\ \A e \in Endpoints, k \in Keys : WF_vars(MarkerExpires(e, k))

\* One call of execute_with_retry, its parameters drawn from the bounds.
RetrySpecInit ==
    /\ RetryInit
    /\ SharedInit
    /\ cuda_available = FALSE
    /\ WorkerInit
    /\ HttpIdle
    /\ PollIdle

RetrySpec == RetrySpecInit /\ [][RetryNext]_vars

\* The Job Store after the workers ran: each of the first MaxJobs job ids
\* has one of the records a worker writes, or none.
PollInit ==
    /\ now = 0
    /\ \E recs \in [1 .. MaxJobs -> {Nil} \cup WrittenRecords(0)] :
        redis = [key \in RedisKeys |->
                    IF key \in {JobKey(j) : j \in 1 .. MaxJobs}
                    THEN IF recs[key[2]] = Nil THEN Nil
                         ELSE [recs[key[2]] EXCEPT !.job_id = key[2]]
                    ELSE Nil]
    /\ queues = [q \in QueueTypes |-> << >>]
    /\ next_uuid = MaxJobs
    /\ cuda_available = FALSE
    /\ GuardInit
    /\ WorkerInit
    /\ RetryIdle
    /\ PollIdle

\* Status requests against a Job Store the workers have written.
PollSpec == PollInit /\ [][PollNext]_vars

\* One step of a worker process: the broker hands a waiting message to an
\* idle consumer, and the event loop of the process runs each await of
\* consume_queue and process_message to its end.
WorkerStep(w) ==
    \/ Deliver(w)
    \/ ProcessMessage(w)
    \/ UpdateProcessing(w)
    \/ GenerateSucceeds(w)
    \/ GenerateFails(w)
    \/ UpdateCompleted(w)
    \/ UpdateFailed(w)
    \/ Ack(w)
    \/ Reject(w)

\* A step in which Redis and the broker answer and no process dies.
FaultFree(A) == A /\ faults' = faults

LiveNext ==
    \/ FaultFree(Submit)
    \/ FaultFree(ForeignPublish)
    \/ \E w \in Workers : FaultFree(WorkerStep(w))

\* The workers without infrastructure faults and under fair scheduling: a
\* worker that can take a step eventually takes one.  Submits and foreign
\* messages stay free.
LiveSpec ==
    /\ Init
    /\ [][LiveNext]_vars
    /\ \A w \in Workers : WF_vars(FaultFree(WorkerStep(w)))

\* Environment: time passes; datetime.utcnow() returns a later instant.
Tick ==
    /\ now < MaxClock
    /\ now' = now + 1
    /\ UNCHANGED <<retryVars, sharedVars, guardVars, workerVars, pollVars>>

\* The workers with Redis and the broker answering; a worker process may
\* die and have its message redelivered.
RedeliveryNext ==
    \/ FaultFree(Submit)
    \/ \E w \in Workers : FaultFree(WorkerStep(w))
    \/ \E w \in Workers : Crash(w)

RedeliverySpec == Init /\ [][RedeliveryNext]_vars

\* The same with the broker expiring messages that waited too long.
DeadLetterNext ==
    \/ RedeliveryNext
    \/ \E q \in QueueTypes : MessageExpires(q)

DeadLetterSpec == Init /\ [][DeadLetterNext]_vars

\* The same while time passes.
ClockNext ==
    \/ RedeliveryNext
    \/ Tick

ClockSpec == Init /\ [][ClockNext]_vars

\* Submits of any priority in front of workers that meet no fault.
PriorityNext ==
    \/ FaultFree(SubmitWithPriority)
    \/ \E w \in Workers : FaultFree(WorkerStep(w))

PrioritySpec == Init /\ [][PriorityNext]_vars

\* The request queues with their message TTL: the router publishes, the
\* workers consume, a process may die, Redis or the broker may fail a call,
\* and a message that waits too long is dead-lettered.  Nothing but the
\* router publishes.
BrokerNext ==
    \/ Submit
    \/ \E w \in Workers : WorkerStep(w)
    \/ \E w \in Workers : Crash(w)
    \/ \E q \in QueueTypes : MessageExpires(q)

BrokerSpec == Init /\ [][BrokerNext]_vars

(***************************************************************************)
(* Claims about the retry policy (checked under RetrySpec).                *)
(***************************************************************************)
RetryEnded == r_pc \in {"returned", "raised"}

\* Every invocation so far failed with an exception retry_on catches.
AlwaysFailedCaught ==
    /\ Len(r_errors) = r_calls
    /\ \A i \in 1 .. Len(r_errors) : r_errors[i].kind \in retry_on

\* C6: for every max_retries >= 0, an operation that fails on every call
\* with a retryable error is invoked exactly max_retries + 1 times (never
\* more while the call is running) and the call then raises
\* MaxRetriesExceeded wrapping the last error observed; with max_retries = 3
\* that is exactly 4 invocations.
C6_ExactlyMaxRetriesPlusOneAttempts ==
    (max_retries >= 0 /\ AlwaysFailedCaught) =>
        /\ r_calls <= max_retries + 1
        /\ RetryEnded =>
            /\ r_calls = max_retries + 1
            /\ r_outcome.type = "MaxRetriesExceeded"
            /\ r_outcome.cause = Last(r_errors)
            /\ r_outcome.cause.at = max_retries
            /\ (max_retries = MAX_RETRIES => r_calls = 4)

C6_Witness ==
    /\ max_retries = MAX_RETRIES
    /\ AlwaysFailedCaught
    /\ r_pc = "raised"
    /\ r_calls = 4
    /\ r_outcome = MaxRetriesExceeded(Last(r_errors))

\* C7: the delay slept before the n-th retry (n >= 1) is
\* base_delay * backoff^(n-1), nothing added: the first delay is base_delay
\* and each later one is the previous one times backoff; with max_retries = 3,
\* base_delay = 2, backoff = 2 a persistently failing operation sleeps exactly
\* 2, 4, 8 between its 4 attempts.
C7_ExponentialBackoffDelays ==
    /\ \A n \in 1 .. Len(r_slept) :
        r_slept[n] = IF n = 1 THEN base_delay ELSE r_slept[n - 1] * backoff
    /\ (/\ max_retries = MAX_RETRIES
        /\ base_delay = RETRY_DELAY
        /\ backoff = RETRY_BACKOFF
        /\ AlwaysFailedCaught
        /\ RetryEnded)
       => (r_slept = <<2, 4, 8>> /\ r_calls = 4)

C7_Witness ==
    /\ max_retries = MAX_RETRIES
    /\ base_delay = RETRY_DELAY
    /\ backoff = RETRY_BACKOFF
    /\ r_pc = "raised"
    /\ r_outcome.type = "MaxRetriesExceeded"
    /\ r_slept = <<2, 4, 8>>

\* C8: an error outside the retryable set propagates on the attempt where it
\* occurs: once the operation has raised one, the call has ended by raising
\* that very error (not MaxRetriesExceeded), the operation was invoked
\* exactly once per attempt up to that one and no delay was slept for it,
\* whatever retry budget remains.
C8_NonRetryablePropagatesAtOnce ==
    (Len(r_errors) > 0 /\ Last(r_errors).kind \notin retry_on) =>
        /\ r_pc = "raised"
        /\ r_outcome = Last(r_errors)
        /\ r_outcome.type # "MaxRetriesExceeded"
        /\ r_calls = Last(r_errors).at + 1
        /\ Len(r_slept) = Last(r_errors).at

C8_Witness ==
    /\ r_pc = "raised"
    /\ Len(r_errors) = 2
    /\ Last(r_errors).kind \notin retry_on
    /\ attempt = 1
    /\ attempt < max_retries
    /\ r_outcome = Last(r_errors)

(***************************************************************************)
(* Claims about the router and the idempotent wrapper (GuardSpec,          *)
(* RouteSpec).                                                             *)
(***************************************************************************)
QueuedEnvelopes(q) == {queues[q][i] : i \in 1 .. Len(queues[q])}

AllQueued == UNION {QueuedEnvelopes(q) : q \in QueueTypes}

\* The request went through func (the endpoint and _route_to_queue).
Routed(c) == c_result[c] # Nil

Published(c) == c_result[c].type = "ChatAsyncResponse"

\* Redis has answered every call so far and has expired nothing.
CacheSound == cache_up /\ outages = 0 /\ expiries = 0

SameRequest(c1, c2) == c_req[c1] # Nil /\ c_req[c1] = c_req[c2]

\* C2: of two requests with the same idempotency key on the same endpoint
\* whose runs of the wrapper overlap, at most one executes the wrapped
\* operation (publishes an envelope), Redis answering every call: never
\* are both between func and the wrapper's end with an envelope published
\* each.
C2_AtMostOneExecutes ==
    CacheSound =>
        \A c1, c2 \in Clients :
            (/\ c1 # c2
             /\ SameRequest(c1, c2)
             /\ c_pc[c1] \in {"cache_response", "unmark_processing"}
             /\ c_pc[c2] \in {"cache_response", "unmark_processing"})
            => ~(Published(c1) /\ Published(c2))

\* C3: once a first request with (E, K) has run the submit to successful
\* completion, a cached response for (E, K) exists, and the first step of a
\* later request with (E, K) returns the first one's response (same job_id)
\* instead of going on to publish.
C3_LaterRequestReturnsCached ==
    [][\A c1, c2 \in Clients :
        (/\ CacheSound
         /\ c1 # c2
         /\ SameRequest(c1, c2)
         /\ c_pc[c1] = "done"
         /\ c_outcome[c1].type = "returned"
         /\ c_pc[c2] = "get_cached_response"
         /\ c_pc'[c2] # "get_cached_response")
        => /\ redis[IdempotencyKey(c_req[c1].endpoint, c_req[c1].idempotency_key)] # Nil
           /\ c_pc'[c2] = "done"
           /\ c_outcome'[c2].type = "returned"
           /\ c_outcome'[c2].value.job_id = c_outcome[c1].value.job_id]_vars

\* C9: a forced-GPU submit routed while the GPU is unavailable fails with the
\* backend-unavailable error (HTTP 503), and no job id was generated, no
\* envelope published and no job record written for it.
C9_ForcedGpuUnavailableFails503 ==
    \A c \in Clients :
        (/\ Routed(c)
         /\ c_req[c].endpoint = "chat_gpu"
         /\ ~cuda_available)
        => /\ c_result[c] = HttpError(503)
           /\ \A env \in AllQueued : env.request.mode # "gpu"
           /\ \A j \in JobIds : redis[JobKey(j)] = Nil

\* C10: the target of a routed request is a function of its mode and of the
\* GPU's availability alone: forced-API goes to the API queue, AUTO to the
\* GPU queue when the GPU is available and to the API queue otherwise,
\* forced-GPU to the GPU queue (and only when available); every published
\* envelope has a target in {gpu, api} and lies in that target's queue, and
\* every request answered with a job id has its envelope there.
C10_RoutingIsFunctionOfModeAndGpu ==
    /\ \A q \in QueueTypes : \A env \in QueuedEnvelopes(q) :
        /\ env.target_mode \in {"gpu", "api"}
        /\ env.target_mode = q
        /\ env.request.mode = "api" => env.target_mode = "api"
        /\ env.request.mode = "auto" =>
               env.target_mode = (IF cuda_available THEN "gpu" ELSE "api")
        /\ env.request.mode = "gpu" => (cuda_available /\ env.target_mode = "gpu")
    /\ \A c \in Clients : Published(c) =>
        \E env \in AllQueued :
            /\ env.job_id = c_result[c].job_id
            /\ env.request.mode = EndpointMode(c_req[c].endpoint)

C10_Witness ==
    /\ cuda_available
    /\ \E env \in QueuedEnvelopes("gpu") : env.request.mode = "auto"
    /\ \E env \in QueuedEnvelopes("api") : env.request.mode = "api"

(***************************************************************************)
(* Claims about the workers and the job store (Spec, LiveSpec).            *)
(***************************************************************************)
StatusRank(status) ==
    CASE status = "pending" -> 0
      [] status = "processing" -> 1
      [] OTHER -> 2

\* C1: the status stored under job:{job_id} never moves backward along
\* PENDING -> PROCESSING -> {COMPLETED, FAILED}, and once it is COMPLETED or
\* FAILED no later write changes it, whatever is redelivered and whatever
\* step of process_message fails.
C1_StatusOnlyMovesForward ==
    [][\A j \in JobIds :
        LET old == StoredStatus(redis, j)
            new == StoredStatus(redis', j)
        IN /\ StatusRank(old) <= StatusRank(new)
           /\ old \in {"completed", "failed"} => new = old]_vars

\* C4: when an envelope is delivered again after its job's stored status is
\* COMPLETED, re-applying the PROCESSING transition leaves the stored result
\* (and status) as it was.
C4_RedeliveryKeepsResult ==
    [][\A w \in Workers :
        (/\ w_pc[w] = "update_processing"
         /\ w_msg[w].redelivered
         /\ StoredStatus(redis, w_msg[w].job_id) = "completed")
        => StoredResult(redis', w_msg[w].job_id)
               = StoredResult(redis, w_msg[w].job_id)]_vars

\* C5: a failure local to one job (generation failing on every attempt, or
\* an envelope that cannot be parsed) never stops the worker: with no
\* infrastructure fault, no worker's consume loop has ended.
C5_WorkerSurvivesJobFailure ==
    \A w \in Workers :
        ~(/\ faults = 0
          /\ w_pc[w] = "stopped"
          /\ w_exc[w] \in {"MAX_RETRIES_EXCEEDED", "JSONDecodeError"})

\* The request mode a message carries, None when its body cannot be parsed.
EnvelopeMode(msg) == IF msg.wellformed THEN msg.request.mode ELSE None

\* The API worker keeps running, the backend succeeds within the retry
\* budget and no infrastructure fault occurs.
ApiWorkerHealthy ==
    /\ faults = 0
    /\ w_pc["api"] # "stopped"
    /\ w_exc["api"] # "MAX_RETRIES_EXCEEDED"

\* The router published job j's envelope for an AUTO request to the API
\* queue while the GPU is unavailable.
AutoQueuedOnApi(j) ==
    /\ ~cuda_available
    /\ \E i \in 1 .. Len(queues["api"]) :
        /\ queues["api"][i].job_id = j
        /\ EnvelopeMode(queues["api"][i]) = "auto"
        /\ queues["api"][i].target_mode = "api"

CompletedOnApi(j) ==
    /\ StoredStatus(redis, j) = "completed"
    /\ (IF StoredResult(redis, j) = Nil THEN None
        ELSE StoredResult(redis, j).mode) = "api"

\* C11: an AUTO submit while the GPU is unavailable publishes its envelope
\* to the API queue (never to the GPU queue), and, the API worker running,
\* the backend succeeding within the retry budget and the workers scheduled
\* fairly, the job's stored status eventually becomes COMPLETED with a
\* result tagged api.
C11_AutoWithoutGpuCompletesOnApi ==
    /\ [](~cuda_available =>
            \A i \in 1 .. Len(queues["gpu"]) :
                ~(/\ EnvelopeMode(queues["gpu"][i]) = "auto"
                  /\ queues["gpu"][i].target_mode = "gpu"))
    /\ \A j \in JobIds :
        ([]ApiWorkerHealthy) => (AutoQueuedOnApi(j) ~> CompletedOnApi(j))

C11_Witness ==
    \E j \in JobIds :
        /\ ~cuda_available
        /\ faults = 0
        /\ CompletedOnApi(j)
        /\ redis[JobKey(j)].idempotency_key \in Keys
        /\ w_pc["api"] = "consuming"

\* `result` and `error` of a record agree with its status.
RecordConsistent(rec) ==
    CASE rec.status = "completed" -> rec.result # Nil /\ rec.error = None
      [] rec.status = "failed" -> rec.error # None /\ rec.result = Nil
      [] OTHER -> rec.result = Nil /\ rec.error = None

\* C13: in every reachable state every job record has a result and no error
\* when COMPLETED, an error and no result when FAILED, and neither when
\* PENDING or PROCESSING.
C13_ResultAndErrorFollowStatus ==
    \A j \in JobIds :
        redis[JobKey(j)] # Nil => RecordConsistent(redis[JobKey(j)])

C13_Witness ==
    \E j1, j2 \in JobIds :
        /\ StoredStatus(redis, j1) = "completed"
        /\ StoredStatus(redis, j2) = "failed"

\* The message is in no request queue and no worker holds it.
OutOfReach(msg) ==
    /\ \A q \in QueueTypes : \A i \in 1 .. Len(queues[q]) : queues[q][i] # msg
    /\ \A w \in Workers : w_msg[w] # msg
    /\ \A w \in Workers :
        w_msg[w] # Nil => w_msg[w].job_id # msg.job_id

\* C14: when generation has failed on every attempt of the retry budget
\* (MAX_RETRIES + 1 invocations), the worker writes the job as FAILED with
\* the cause as error (Redis and the broker answering), and the envelope it
\* rejects is dead-lettered: it is in no request queue and no worker holds
\* it or invokes the backend for it again.
C14_ExhaustedJobFailsAndIsNotRequeued ==
    \A w \in Workers :
        /\ (w_exc[w] = "MAX_RETRIES_EXCEEDED" /\ w_pc[w] \in {"raise", "stopped"})
           => /\ w_attempt[w] = MAX_RETRIES
              /\ faults = 0 =>
                    LET j == IF w_pc[w] = "raise" THEN w_msg[w].job_id
                             ELSE Last(dlq[w]).job_id
                    IN redis[JobKey(j)] # Nil
                       /\ redis[JobKey(j)].status = "failed"
                       /\ redis[JobKey(j)].error = "MAX_RETRIES_EXCEEDED"
        /\ (w_exc[w] = "MAX_RETRIES_EXCEEDED" /\ w_pc[w] = "stopped")
           => /\ Len(dlq[w]) = 1
              /\ OutOfReach(dlq[w][1])

C14_Witness ==
    \E w \in Workers :
        /\ w_pc[w] = "stopped"
        /\ w_exc[w] = "MAX_RETRIES_EXCEEDED"
        /\ faults = 0
        /\ StoredStatus(redis, dlq[w][1].job_id) = "failed"
        /\ queues[w] # << >>

\* C15: a COMPLETED record is written only by a worker whose generation
\* succeeded for that job in this delivery, and its result is that
\* generation's, tagged with the worker's own backend, which is the
\* envelope's target; and a worker whose generation succeeded writes the
\* job as COMPLETED with that result (Redis and the broker answering).
C15_CompletedOnlyAfterSuccess ==
    [][/\ \A j \in JobIds :
            (/\ StoredStatus(redis', j) = "completed"
             /\ redis'[JobKey(j)] # redis[JobKey(j)])
            => \E w \in Workers :
                /\ w_msg[w] # Nil
                /\ w_msg[w].job_id = j
                /\ w_pc[w] = "update_completed"
                /\ w_result[w] # Nil
                /\ redis'[JobKey(j)].result = w_result[w]
                /\ w_result[w].mode = w
                /\ w_msg[w].target_mode = w
       /\ \A w \in Workers :
            (/\ w_pc[w] = "update_completed"
             /\ w_pc'[w] = "return"
             /\ faults' = faults)
            => /\ w_result[w] # Nil
               /\ StoredStatus(redis', w_msg[w].job_id) = "completed"
               /\ StoredResult(redis', w_msg[w].job_id) = w_result[w]
               /\ w_result[w].mode = w]_vars

C15_Witness ==
    \E w \in Workers :
        /\ w_pc[w] = "return"
        /\ w_result[w] # Nil
        /\ w_attempt[w] > 0
        /\ StoredStatus(redis, w_msg[w].job_id) = "completed"
        /\ StoredResult(redis, w_msg[w].job_id).mode = w

\* The delivery the worker holds passed the parse and the queue check.
PassedGuard(w) ==
    /\ w_msg[w] # Nil
    /\ w_msg[w].wellformed
    /\ w_msg[w].target_mode = w

\* C16: Redis and the broker answering, every delivery that passed the
\* backend guard ends, whether generation succeeded or failed, with an
\* event for its job on the response queue carrying COMPLETED or FAILED,
\* and the last event published for a job carries the status of the job's
\* stored record.
C16_CompletionEventMatchesRecord ==
    faults = 0 =>
        /\ \A w \in Workers :
            (PassedGuard(w) /\ w_pc[w] \in {"return", "raise"})
            => /\ responses[w_msg[w].job_id] \in {"completed", "failed"}
               /\ responses[w_msg[w].job_id]
                    = (IF w_pc[w] = "return" THEN "completed" ELSE "failed")
        /\ \A j \in JobIds :
            responses[j] # None => responses[j] = StoredStatus(redis, j)

C16_Witness ==
    \E w \in Workers :
        /\ faults = 0
        /\ PassedGuard(w)
        /\ w_pc[w] = "raise"
        /\ responses[w_msg[w].job_id] = "failed"
        /\ StoredStatus(redis, w_msg[w].job_id) = "failed"

\* C17: an envelope whose body cannot be deserialized is rejected without
\* retry: every step the worker takes with it leaves the Job Store, the
\* response queue and the request queues as they are, never reaches the
\* backend, and ends with the message dead-lettered, not requeued.
C17_MalformedIsRejected ==
    [][\A w \in Workers :
        (/\ w_msg[w] # Nil
         /\ ~w_msg[w].wellformed
         /\ w_pc'[w] # w_pc[w]
         /\ faults' = faults)
        => /\ redis' = redis
           /\ responses' = responses
           /\ queues' = queues
           /\ w_attempt'[w] = 0
           /\ w_pc'[w] \in {"raise", "stopped"}
           /\ w_pc'[w] = "stopped" => dlq'[w] = Append(dlq[w], w_msg[w])]_vars

C17_Witness ==
    \E w \in Workers :
        /\ w_pc[w] = "stopped"
        /\ w_exc[w] = "JSONDecodeError"
        /\ Len(dlq[w]) = 1
        /\ ~dlq[w][1].wellformed
        /\ OutOfReach(dlq[w][1])

\* C18: while a worker handles an envelope whose target_mode is not its own
\* queue_type, the Job Store and the response queue stay as they are and
\* the worker never reaches the PROCESSING write or the backend.
C18_WrongQueueChangesNothing ==
    [][\A w \in Workers :
        (/\ w_msg[w] # Nil
         /\ w_msg[w].wellformed
         /\ w_msg[w].target_mode # w
         /\ w_pc'[w] # w_pc[w])
        => /\ redis' = redis
           /\ responses' = responses
           /\ w_pc'[w] \in {"return", "consuming"}]_vars

C18_Witness ==
    \E w \in Workers :
        /\ w_pc[w] = "return"
        /\ w_msg[w].wellformed
        /\ w_msg[w].target_mode # w
        /\ redis[JobKey(w_msg[w].job_id)] = Nil
        /\ responses[w_msg[w].job_id] = None

\* Some request queue or dead-letter queue holds job j's envelope.
AtBroker(qs, dl, j) ==
    \E q \in QueueTypes :
        \/ \E i \in 1 .. Len(qs[q]) : qs[q][i].job_id = j
        \/ \E i \in 1 .. Len(dl[q]) : dl[q][i].job_id = j

\* C19: an envelope whose target_mode is not the worker's queue_type is
\* skipped without a success acknowledgment: when the worker lets go of it,
\* the broker still holds it (requeued or rejected).
C19_WrongQueueNotAcknowledged ==
    [][\A w \in Workers :
        (/\ w_msg[w] # Nil
         /\ w_msg[w].wellformed
         /\ w_msg[w].target_mode # w
         /\ w_msg'[w] = Nil)
        => AtBroker(queues', dlq', w_msg[w].job_id)]_vars

\* C20: a job is never acknowledged and reported COMPLETED on the response
\* queue while its COMPLETED record is not in the Job Store: a cache write
\* that fails is raised out of process_message, so the handler does not
\* return normally.
C20_CompletedEventImpliesRecord ==
    \A w \in Workers :
        (/\ PassedGuard(w)
         /\ w_pc[w] = "return"
         /\ responses[w_msg[w].job_id] = "completed")
        => StoredStatus(redis, w_msg[w].job_id) = "completed"

(***************************************************************************)
(* Claims about the status endpoint (PollSpec).                            *)
(***************************************************************************)
\* C12: get_job_status on a job id that has no record in the Job Store
\* (never written, or expired) returns a record with status PENDING and
\* neither result nor error, never an error outcome, and writes nothing.
C12_UnknownJobIsPending ==
    [][\A j \in JobIds :
        (/\ poll' # poll
         /\ poll'.job_id = j
         /\ redis[JobKey(j)] = Nil)
        => /\ poll'.status = "pending"
           /\ poll'.result = Nil
           /\ poll'.error = None
           /\ redis' = redis]_vars

C12_Witness ==
    /\ poll # Nil
    /\ expiries = 1
    /\ cache_up
    /\ poll.job_id <= MaxJobs
    /\ redis[JobKey(poll.job_id)] = Nil
    /\ poll.status = "pending"

(***************************************************************************)
(* Claims about the request queues and their dead-letter queues            *)
(* (DeadLetterSpec, BrokerSpec).                                           *)
(***************************************************************************)
\* C21: an envelope that leaves the head of a request queue without being
\* handed to a consumer (its message TTL ran out) is appended to the
\* dead-letter queue of that same backend and to no other, and an envelope
\* in a dead-letter queue stays there: no step takes it out again.
C21_ExpiredGoesToOwnDeadLetterQueue ==
    [][\A q \in QueueTypes :
        /\ Len(dlq'[q]) >= Len(dlq[q])
        /\ SubSeq(dlq'[q], 1, Len(dlq[q])) = dlq[q]
        /\ (/\ queues[q] # << >>
            /\ queues'[q] = Tail(queues[q])
            /\ w_msg'[q] = w_msg[q])
           => /\ dlq'[q] = Append(dlq[q], Head(queues[q]))
              /\ \A t \in QueueTypes \ {q} : dlq'[t] = dlq[t]]_vars

\* An envelope sits in a dead-letter queue although the queue's worker never
\* rejected anything: it expired.
C21_Witness ==
    \E q \in QueueTypes :
        /\ dlq[q] # << >>
        /\ w_pc[q] = "consuming"
        /\ Head(dlq[q]).target_mode = q
        /\ StoredStatus(redis, Head(dlq[q]).job_id) = "pending"

\* C22: a worker never holds more than WORKER_PREFETCH_COUNT (1) delivered
\* and unacknowledged envelopes, and the broker hands an envelope only to a
\* worker that holds fewer than that.
C22_AtMostPrefetchCountUnacked ==
    [][\A w \in Workers :
        /\ Unacked(w) <= WORKER_PREFETCH_COUNT
        /\ (w_msg'[w] # Nil /\ w_msg'[w] # w_msg[w])
           => /\ Unacked(w) < WORKER_PREFETCH_COUNT
              /\ queues[w] # << >>
              /\ w_msg'[w] = Head(queues[w])]_vars

\* A worker is busy with one envelope while another waits in its queue.
C22_Witness ==
    \E w \in Workers :
        /\ w_pc[w] = "generate"
        /\ Unacked(w) = WORKER_PREFETCH_COUNT
        /\ queues[w] # << >>
        /\ Head(queues[w]).job_id # w_msg[w].job_id

\* The envelopes a backend has: those waiting in its request queue, those in
\* its dead-letter queue and the one its worker holds.
AtBackend(qs, dl, held, q) ==
    {qs[q][i] : i \in 1 .. Len(qs[q])}
        \cup {dl[q][i] : i \in 1 .. Len(dl[q])}
        \cup (IF held[q] = Nil THEN {} ELSE {held[q]})

\* C23: the target backend of an envelope is fixed when it is published:
\* every envelope in the GPU queue, with the GPU worker or in the GPU
\* dead-letter queue carries target gpu, likewise for api, and no step moves
\* an envelope to the other backend or changes its target.
C23_TargetBackendIsFixed ==
    [][\A q \in QueueTypes :
        \A e \in AtBackend(queues', dlq', w_msg', q) :
            /\ e.target_mode = q
            /\ \A t \in QueueTypes :
                \A d \in AtBackend(queues, dlq, w_msg, t) :
                    d.job_id = e.job_id
                    => t = q /\ d.target_mode = e.target_mode]_vars

\* One envelope came back to its queue after its worker died, another was
\* dead-lettered: both are still at the backend they were published to.
C23_Witness ==
    \E q \in QueueTypes, t \in QueueTypes :
        /\ dlq[q] # << >>
        /\ Head(dlq[q]).target_mode = q
        /\ queues[t] # << >>
        /\ Head(queues[t]).redelivered
        /\ Head(queues[t]).target_mode = t

\* Job j's envelope is in a request queue, in a dead-letter queue or with a
\* worker.
Held(j) ==
    \/ AtBroker(queues, dlq, j)
    \/ \E w \in Workers : w_msg[w] # Nil /\ w_msg[w].job_id = j

\* C29: no published job is silently dropped: an envelope that is gone from
\* its request queue, is in no dead-letter queue and is held by no worker
\* (it was acknowledged) has left its job with a stored terminal status,
\* COMPLETED or FAILED; no later step writes the record of such a job.
C29_NoJobSilentlyDropped ==
    \A j \in 1 .. next_uuid :
        ~Held(j) => StoredStatus(redis, j) \in {"completed", "failed"}

\* C30 (PrioritySpec): within one request queue the envelope handed to the
\* worker has a priority at least as high as every envelope that was
\* waiting with it: of two waiting envelopes the one published with the
\* higher priority is delivered first.
C30_HigherPriorityDeliveredFirst ==
    [][\A w \in Workers :
        (/\ Unacked(w) = 0
         /\ w_msg'[w] # Nil)
        => \A i \in 1 .. Len(queues[w]) :
               MessagePriority(w_msg'[w]) >= MessagePriority(queues[w][i])]_vars

(***************************************************************************)
(* Claims about the wrapper and publish_chat_request (RouteSpec).          *)
(***************************************************************************)
\* C24: every call of publish_chat_request draws a fresh job_id: no two
\* published envelopes carry the same job_id, and no two submits were
\* answered with the same job_id, whether or not they share an idempotency
\* key.
C24_JobIdsAreFresh ==
    /\ \A q1 \in QueueTypes, q2 \in QueueTypes :
        \A i \in 1 .. Len(queues[q1]), j \in 1 .. Len(queues[q2]) :
            (q1 # q2 \/ i # j) => queues[q1][i].job_id # queues[q2][j].job_id
    /\ \A c1 \in Clients, c2 \in Clients :
        (c1 # c2 /\ Published(c1) /\ Published(c2))
        => c_result[c1].job_id # c_result[c2].job_id

\* Two submits with the same endpoint and idempotency key were both
\* published.
C24_Witness ==
    \E c1 \in Clients, c2 \in Clients :
        /\ c1 # c2
        /\ SameRequest(c1, c2)
        /\ Published(c1)
        /\ Published(c2)
        /\ \E q \in QueueTypes :
            /\ Len(queues[q]) = 2
            /\ queues[q][1].request.idempotency_key
                   = queues[q][2].request.idempotency_key

(***************************************************************************)
(* Claims about the idempotent wrapper around any operation (IdemSpec,     *)
(* IdemLiveSpec).                                                          *)
(***************************************************************************)
\* The caller is between mark_processing and the end of the wrapper.
InFlight(c) == c_pc[c] \in {"func", "cache_response", "unmark_processing"}

Crashed(c) == c_outcome[c].type = "crashed"

MarkerOf(c) == ProcessingKey(c_req[c].endpoint, c_req[c].idempotency_key)

\* C25: a caller that set the processing marker and whose wrapped operation
\* finished, by returning or by raising, ends the wrapper by deleting the
\* marker, Redis answering; and when no caller crashed, none is in flight
\* and Redis has answered every call, no processing marker exists.
C25_MarkerDeletedWhenCallEnds ==
    [][/\ \A c \in Clients :
            (/\ c_pc[c] = "unmark_processing"
             /\ c_pc'[c] = "done"
             /\ ~Crashed(c)'
             /\ cache_up)
            => /\ redis'[MarkerOf(c)] = Nil
               /\ c_outcome'[c].type = (IF c_result[c].type = "HTTPException"
                                         THEN "raised" ELSE "returned")
       /\ (/\ cache_up'
           /\ outages' = 0
           /\ \A c \in Clients : ~Crashed(c)' /\ ~InFlight(c)')
          => \A e \in Endpoints, k \in Keys :
                 redis'[ProcessingKey(e, k)] = Nil]_vars

\* One caller's operation raised, another's returned; both have left the
\* wrapper and no marker is left.
C25_Witness ==
    /\ cache_up
    /\ outages = 0
    /\ expiries = 0
    /\ \A c \in Clients : c_pc[c] = "done" /\ ~Crashed(c)
    /\ \E c1 \in Clients, c2 \in Clients :
        /\ c_outcome[c1].type = "raised"
        /\ c_result[c1].type = "HTTPException"
        /\ c_outcome[c2].type = "returned"
        /\ c_result[c2].type = "dict"
    /\ \A e \in Endpoints, k \in Keys : redis[ProcessingKey(e, k)] = Nil

\* C26: a caller whose in-flight check finds the processing marker of its
\* (endpoint, key), having found no cached response, ends with the
\* idempotency conflict error: it never runs the wrapped operation, and its
\* check leaves the marker and the response cache as they are.
C26_InFlightCheckRejects ==
    [][\A c \in Clients :
        (/\ c_pc[c] = "is_processing"
         /\ c_pc'[c] # c_pc[c]
         /\ cache_up
         /\ redis[MarkerOf(c)] # Nil)
        => /\ c_pc'[c] = "done"
           /\ c_outcome'[c] = [type |-> "raised",
                                error |-> "IDEMPOTENCY_CONFLICT"]
           /\ c_result'[c] = Nil
           /\ redis' = redis]_vars

\* A second caller was rejected while the first one is still running the
\* operation under its marker.
C26_Witness ==
    \E c1 \in Clients, c2 \in Clients :
        /\ c1 # c2
        /\ SameRequest(c1, c2)
        /\ c_pc[c1] = "func"
        /\ redis[MarkerOf(c1)] # Nil
        /\ redis[IdempotencyKey(c_req[c1].endpoint, c_req[c1].idempotency_key)] = Nil
        /\ c_pc[c2] = "done"
        /\ c_outcome[c2].type = "raised"
        /\ c_result[c2] = Nil

\* C27: a caller whose first step finds a cached response for its
\* (endpoint, key) in the store, Redis answering, returns exactly that
\* response at once: it goes to neither the in-flight check nor the wrapped
\* operation, and Redis (the marker and the cache) is left as it is.
C27_CacheHitReturnsCached ==
    [][\A c \in Clients :
        LET key == IdempotencyKey(c_req[c].endpoint, c_req[c].idempotency_key)
        IN (/\ c_pc[c] = "get_cached_response"
            /\ c_pc'[c] # c_pc[c]
            /\ cache_up
            /\ redis[key] # Nil)
           => /\ c_pc'[c] = "done"
              /\ c_outcome'[c] = [type |-> "returned",
                                   value |-> JsonLoads(redis[key]),
                                   cached |-> TRUE]
              /\ redis' = redis]_vars

\* A caller crashed between mark_processing and unmark_processing and the
\* marker of its (endpoint, key) is in Redis.
StaleMarker(e, k) ==
    /\ redis[ProcessingKey(e, k)] # Nil
    /\ \E c \in Clients :
        /\ Crashed(c)
        /\ c_req[c] = [endpoint |-> e, idempotency_key |-> k]

\* C28: the marker a crashed caller left behind does not stay: it is
\* eventually gone (its TTL of 300 s runs out, if nothing deletes it first),
\* and a request whose in-flight check finds no marker is not rejected with
\* a conflict but goes on to claim the key.
C28_StaleMarkerExpires ==
    /\ \A e \in Endpoints, k \in Keys :
        StaleMarker(e, k) ~> (redis[ProcessingKey(e, k)] = Nil)
    /\ [][\A c \in Clients :
            (/\ c_pc[c] = "is_processing"
             /\ c_pc'[c] # c_pc[c]
             /\ redis[MarkerOf(c)] = Nil)
            => /\ c_pc'[c] = "mark_processing"
               /\ c_outcome'[c] = Nil]_vars

\* After a crash and the expiry of the marker, a later caller with the same
\* (endpoint, key) has passed the in-flight check and runs the operation.
C28_Witness ==
    \E c1 \in Clients, c2 \in Clients :
        /\ c1 # c2
        /\ SameRequest(c1, c2)
        /\ Crashed(c1)
        /\ expiries > 0
        /\ cache_up
        /\ outages = 0
        /\ c_pc[c2] = "func"

(***************************************************************************)
(* Claims about the job record and the worker's steps (ClockSpec,          *)
(* RedeliverySpec).                                                        *)
(***************************************************************************)
\* C31: the created_at of a job's stored record is set once: every write
\* that replaces a record of job j keeps the created_at the record had.
C31_CreatedAtSetOnce ==
    [][\A j \in JobIds :
        (redis[JobKey(j)] # Nil /\ redis'[JobKey(j)] # Nil)
        => redis'[JobKey(j)].created_at = redis[JobKey(j)].created_at]_vars

\* The worker is at a call of _update_job_status.
UpdatePcs == {"update_processing", "update_completed", "update_failed"}

\* The record that call writes: its arguments, nothing of the stored record.
WriteOf(w) ==
    LET status == CASE w_pc[w] = "update_processing" -> "processing"
                    [] w_pc[w] = "update_completed" -> "completed"
                    [] OTHER -> "failed"
    IN JobRecord(w_msg[w].job_id, status,
                 IF status = "completed" THEN w_result[w] ELSE Nil,
                 IF status = "failed" THEN w_exc[w] ELSE None,
                 EnvelopeKey(w_msg[w]))

\* C32 (RedeliverySpec): a Job Store write is a full overwrite keyed by
\* job_id: after a worker's status write the record of its job is the one
\* the write's arguments give, whatever record was there, every other key
\* of the store is as before, and writing the same record once more changes
\* nothing.
C32_WriteIsFullOverwrite ==
    [][\A w \in Workers :
        (/\ w_pc[w] \in UpdatePcs
         /\ w_pc'[w] # w_pc[w]
         /\ w_msg'[w] = w_msg[w])
        => LET key == JobKey(w_msg[w].job_id) IN
           /\ redis'[key] = WriteOf(w)
           /\ \A k \in RedisKeys \ {key} : redis'[k] = redis[k]
           /\ CacheSet(TRUE, redis', key, WriteOf(w)) = redis']_vars

\* A redelivered job has its PROCESSING record written again while another
\* job's COMPLETED record is in the store.
C32_Witness ==
    \E w \in Workers :
        /\ w_pc[w] = "generate"
        /\ w_msg[w].redelivered
        /\ StoredStatus(redis, w_msg[w].job_id) = "processing"
        /\ \E j \in JobIds :
            /\ j # w_msg[w].job_id
            /\ StoredStatus(redis, j) = "completed"

(***************************************************************************)
(* Claims about the scope of the idempotency records (ScopeSpec).          *)
(***************************************************************************)
\* The wrapper answered the caller from the response cache.
CacheHit(c) == c_outcome[c].type = "returned" /\ c_outcome[c].cached

\* The wrapper rejected the caller with the idempotency conflict.
Conflict(c) == c_outcome[c].type = "raised" /\ c_result[c] = Nil

\* c2 is another request with the endpoint and the key of c.
SameScope(c, c2) == c2 # c /\ c_req[c2] = c_req[c]

\* C33: the idempotency records are scoped by endpoint: a caller is answered
\* from the cache only when another request to the same endpoint with the
\* same key cached a dict, and is rejected with the conflict only when
\* another request to the same endpoint with the same key set the marker;
\* a request with no other request on its endpoint runs its operation,
\* whatever was submitted with the same key to other endpoints, and every
\* route that succeeded has its own envelope on a queue.
C33_RecordsScopedByEndpoint ==
    \A c \in Clients :
        /\ CacheHit(c) =>
              \E c2 \in Clients :
                  /\ SameScope(c, c2)
                  /\ c_pc[c2] \in {"unmark_processing", "done"}
                  /\ c_result[c2].type = "dict"
        /\ Conflict(c) =>
              \E c2 \in Clients :
                  /\ SameScope(c, c2)
                  /\ c_pc[c2] \in {"func", "cache_response",
                                   "unmark_processing", "done"}
                  /\ ~CacheHit(c2) /\ ~Conflict(c2)
        /\ (c_pc[c] = "done" /\ Published(c)) =>
              \E q \in QueueTypes : \E i \in 1 .. Len(queues[q]) :
                  /\ queues[q][i].job_id = c_result[c].job_id
                  /\ \A c2 \in Clients \ {c} :
                         Published(c2) => c_result[c2].job_id # c_result[c].job_id

\* The same key went to two endpoints while the marker of the first was
\* set; both routes succeeded and two envelopes are queued.
C33_Witness ==
    \E c1 \in Clients, c2 \in Clients :
        /\ cache_up
        /\ c_req[c1] # Nil /\ c_req[c2] # Nil
        /\ c_req[c1].endpoint # c_req[c2].endpoint
        /\ c_req[c1].idempotency_key = c_req[c2].idempotency_key
        /\ c_pc[c1] = "cache_response" /\ Published(c1)
        /\ redis[MarkerOf(c1)] # Nil
        /\ c_pc[c2] = "done" /\ Published(c2)
        /\ c_outcome[c2].type = "returned" /\ ~c_outcome[c2].cached
        /\ Len(queues["gpu"]) + Len(queues["api"]) = 2

\* C34 (RedeliverySpec): within one delivery the worker's steps are ordered.
\* The backend is invoked only after the PROCESSING write of that delivery:
\* a worker reaches or stays at the invocation with the record of its job
\* PROCESSING and the PROCESSING event published.  The COMPLETED or FAILED
\* record is written only by a worker that has left its last invocation,
\* and a worker that has left it invokes the backend no more for that
\* delivery.
C34_WorkerStepsOrdered ==
    [][\A w \in Workers :
        /\ w_pc'[w] = "generate" =>
              /\ w_pc[w] \in {"update_processing", "generate"}
              /\ w_msg'[w] = w_msg[w]
              /\ StoredStatus(redis', w_msg[w].job_id) = "processing"
              /\ responses'[w_msg[w].job_id] = "processing"
        /\ (/\ w_msg[w] # Nil
            /\ redis'[JobKey(w_msg[w].job_id)] # redis[JobKey(w_msg[w].job_id)]
            /\ StoredStatus(redis', w_msg[w].job_id) \in {"completed", "failed"})
           => /\ w_pc[w] \in {"update_completed", "update_failed"}
              /\ w_pc'[w] \in {"return", "raise"}
        /\ w_pc[w] \in {"update_completed", "update_failed", "return", "raise"}
           => w_pc'[w] # "generate"]_vars

\* In its second delivery a job is PROCESSING, with the PROCESSING event
\* published, while the backend is invoked for the second time.
C34_Witness ==
    \E w \in Workers :
        /\ w_pc[w] = "generate"
        /\ w_attempt[w] = 1
        /\ w_msg[w].redelivered
        /\ StoredStatus(redis, w_msg[w].job_id) = "processing"
        /\ responses[w_msg[w].job_id] = "processing"
        /\ faults = MaxFaults

(***************************************************************************)
(* A further claim about the retry policy (RetrySpec).                     *)
(***************************************************************************)
\* C35: execute_with_retry stops at the first attempt that succeeds: the
\* call returns that attempt's result, every earlier attempt failed and the
\* operation was invoked once per attempt and no more, with one delay slept
\* per failed attempt (k failures, k delays).  When every attempt failed
\* with a retryable error and the call has raised, no delay follows the
\* last failure (k failures, k - 1 delays).
C35_StopsAtFirstSuccess ==
    /\ r_pc = "returned" =>
          /\ r_outcome = [type |-> "result", at |-> attempt]
          /\ r_calls = attempt + 1
          /\ Len(r_errors) = attempt
          /\ \A i \in 1 .. Len(r_errors) : r_errors[i].at = i - 1
          /\ Len(r_slept) = Len(r_errors)
    /\ (r_pc = "raised" /\ max_retries >= 0 /\ AlwaysFailedCaught) =>
          /\ Len(r_errors) = max_retries + 1
          /\ Len(r_slept) = Len(r_errors) - 1

\* The third attempt succeeded after two failures and two delays, with
\* budget left.
C35_Witness ==
    /\ r_pc = "returned"
    /\ max_retries = MAX_RETRIES
    /\ r_outcome.at = 2
    /\ r_calls = 3
    /\ Len(r_errors) = 2
    /\ Len(r_slept) = 2

(***************************************************************************)
(* A claim about the end of a delivery (LiveSpec).                         *)
(***************************************************************************)
\* The backend invocations of the delivery the worker holds, so far: one per
\* failed attempt, and the one that succeeded or exhausted the budget.
Invocations(w) ==
    IF w_pc[w] \in {"update_completed", "update_failed", "return", "raise"}
    THEN w_attempt[w] + 1
    ELSE w_attempt[w]

\* C36: Redis and the broker answering and the worker scheduled fairly, a
\* delivery that passed the backend guard ends: the backend is invoked at
\* least once and at most MAX_RETRIES + 1 = 4 times, whatever it raises,
\* and process_message then returns or raises.
C36_DeliveryTerminates ==
    /\ [](\A w \in Workers :
            /\ w_attempt[w] <= MAX_RETRIES
            /\ (PassedGuard(w) /\ w_pc[w] \in {"update_completed", "update_failed",
                                                "return", "raise"})
               => (Invocations(w) >= 1 /\ Invocations(w) <= 4))
    /\ \A w \in Workers :
          (PassedGuard(w) /\ w_pc[w] = "update_processing")
              ~> (PassedGuard(w) /\ w_pc[w] \in {"return", "raise"})

\* A delivery ended after four invocations, the fourth one succeeding.
C36_Witness ==
    \E w \in Workers :
        /\ PassedGuard(w)
        /\ w_pc[w] = "return"
        /\ w_attempt[w] = MAX_RETRIES
        /\ Invocations(w) = 4
        /\ w_result[w] # Nil

(***************************************************************************)
(* Claims about a wrapped operation that raises, concurrent callers and an *)
(* unreachable cache (ScopeSpec, IdemSpec).                                *)
(***************************************************************************)
\* The wrapped operation of c raised and the exception has left the wrapper.
OperationRaised(c) ==
    /\ c_pc[c] = "done"
    /\ c_result[c].type = "HTTPException"
    /\ c_outcome[c].type = "raised"

\* C37 (ScopeSpec): when the wrapped operation raises, the wrapper goes
\* straight to its finally block and writes no response to the cache; and
\* a request whose every predecessor with the same endpoint and key ended
\* with its operation raising finds no cached response and no marker: its
\* checks let it through to the operation.
C37_RaiseLeavesNoTrace ==
    [][\A c \in Clients :
        /\ (c_pc[c] = "func" /\ c_result'[c].type = "HTTPException")
           => (c_pc'[c] = "unmark_processing" /\ redis' = redis)
        /\ (/\ c_pc[c] = "unmark_processing"
            /\ c_pc'[c] = "done"
            /\ c_result[c].type = "HTTPException")
           => redis'[IdempotencyKey(c_req[c].endpoint, c_req[c].idempotency_key)]
                  = redis[IdempotencyKey(c_req[c].endpoint, c_req[c].idempotency_key)]
        /\ (/\ c_pc[c] \in {"get_cached_response", "is_processing"}
            /\ c_pc'[c] # c_pc[c]
            /\ \E c1 \in Clients : SameScope(c, c1)
            /\ \A c1 \in Clients : SameScope(c, c1) => OperationRaised(c1))
           => (/\ c_pc'[c] = (IF c_pc[c] = "get_cached_response"
                               THEN "is_processing" ELSE "mark_processing")
               /\ c_outcome'[c] = Nil)]_vars

\* A forced-GPU request was refused with 503, Redis reachable; a second
\* request with the same key is running the operation again under its own
\* marker, with no response cached.
C37_Witness ==
    \E c1 \in Clients, c2 \in Clients :
        /\ cache_up
        /\ c_req[c1] # Nil
        /\ SameScope(c1, c2)
        /\ c_req[c1].endpoint = "chat_gpu"
        /\ OperationRaised(c1)
        /\ c_result[c1] = HttpError(503)
        /\ c_pc[c2] = "func"
        /\ redis[MarkerOf(c2)] # Nil
        /\ redis[IdempotencyKey(c_req[c2].endpoint, c_req[c2].idempotency_key)] = Nil

\* C38 (IdemSpec): while a caller is executing the wrapped operation for
\* (endpoint, key), Redis having answered every call and expired nothing,
\* the processing marker of (endpoint, key) exists: no other caller's
\* unmark has removed it.
C38_MarkerCoversExecution ==
    \A c \in Clients :
        (c_pc[c] = "func" /\ CacheSound) => redis[MarkerOf(c)] # Nil

\* C39 (IdemSpec): the wrapper fails open when Redis is unreachable.  A step
\* taken while Redis is down finds no cached response and no marker, writes
\* nothing, and lets the caller through to the operation and out with the
\* operation's own result or exception; and while Redis has been down from
\* the start, every request that left the wrapper alive executed the
\* operation, none was answered from the cache and none was rejected.
C39_FailsOpenWhenCacheDown ==
    [][/\ \A c \in Clients :
            (~cache_up /\ c_pc'[c] # c_pc[c] /\ c_pc[c] # "idle" /\ ~Crashed(c)')
            => /\ redis' = redis
               /\ c_pc'[c] =
                    (CASE c_pc[c] = "get_cached_response" -> "is_processing"
                       [] c_pc[c] = "is_processing" -> "mark_processing"
                       [] c_pc[c] = "mark_processing" -> "func"
                       [] c_pc[c] = "func" ->
                            (IF c_result'[c].type = "HTTPException"
                             THEN "unmark_processing" ELSE "cache_response")
                       [] c_pc[c] = "cache_response" -> "unmark_processing"
                       [] OTHER -> "done")
               /\ c_pc'[c] = "done" =>
                    c_outcome'[c] =
                        (IF c_result[c].type = "HTTPException"
                         THEN [type |-> "raised", error |-> c_result[c]]
                         ELSE [type |-> "returned", value |-> c_result[c],
                               cached |-> FALSE])
       /\ (~cache_up' /\ outages' = 0) =>
            \A c \in Clients :
                (c_pc'[c] = "done" /\ ~Crashed(c)')
                => (c_result'[c] # Nil /\ ~CacheHit(c)' /\ ~Conflict(c)')]_vars

\* Redis down from the start: two requests with the same key both executed
\* the operation and both got its result.
C39_Witness ==
    /\ ~cache_up
    /\ outages = 0
    /\ \E c1 \in Clients, c2 \in Clients :
        /\ c1 # c2
        /\ SameRequest(c1, c2)
        /\ c_pc[c1] = "done" /\ c_pc[c2] = "done"
        /\ c_outcome[c1] = [type |-> "returned", value |-> c_result[c1],
                             cached |-> FALSE]
        /\ c_outcome[c2] = [type |-> "returned", value |-> c_result[c2],
                             cached |-> FALSE]
        /\ c_result[c1].type = "dict"
        /\ c_result[c2].type = "dict"
    /\ \A k \in RedisKeys : redis[k] = Nil

(***************************************************************************)
(* A claim about one route call (RouteSpec).                               *)
(***************************************************************************)
\* The envelopes on the two request queues together.
QueuedCount == Len(queues["gpu"]) + Len(queues["api"])

\* C40: a route call that succeeds publishes exactly one envelope, at the
\* tail of exactly one request queue, and answers with the job_id of that
\* envelope, status PENDING and the caller's idempotency_key; a route call
\* that fails publishes nothing.
C40_OneEnvelopePerRoute ==
    [][\A c \in Clients :
        (c_pc[c] = "func" /\ c_pc'[c] # "func")
        => IF c_result'[c].type = "ChatAsyncResponse"
           THEN /\ QueuedCount' = QueuedCount + 1
                /\ \E q \in QueueTypes :
                    /\ Len(queues'[q]) = Len(queues[q]) + 1
                    /\ SubSeq(queues'[q], 1, Len(queues[q])) = queues[q]
                    /\ \A q2 \in QueueTypes \ {q} : queues'[q2] = queues[q2]
                    /\ Last(queues'[q]).job_id = c_result'[c].job_id
                    /\ EnvelopeKey(Last(queues'[q])) = c_req[c].idempotency_key
                /\ c_result'[c].status = "pending"
                /\ c_result'[c].idempotency_key = c_req[c].idempotency_key
           ELSE /\ c_result'[c].type = "HTTPException"
                /\ queues' = queues]_vars

\* One route call succeeded and one failed: one envelope is queued, with the
\* job_id the successful call answered.
C40_Witness ==
    \E c1 \in Clients, c2 \in Clients :
        /\ Published(c1)
        /\ c_result[c1].status = "pending"
        /\ c_result[c2].type = "HTTPException"
        /\ QueuedCount = 1
        /\ \E env \in AllQueued : env.job_id = c_result[c1].job_id

=============================================================================
